---- MODULE Spec2Model ----
(***************************************************************************)
(* State-machine model of ISP-SpeedKarma's adaptive core:                  *)
(*   - the detection-risk state of the Stealth Engine                      *)
(*     (src/src/network/stealth.rs),                                       *)
(*   - the cadence loop of the Throughput Keeper                           *)
(*     (src/src/network/keeper.rs), and                                    *)
(*   - the Pattern Learning Engine (src/src/core/intelligence.rs).         *)
(*                                                                         *)
(* Numbers.  effectiveness_score is an f64 in the program and is modelled  *)
(* as an IEEE 754 binary64 value: a 53-bit significand and an exponent,    *)
(* with every product and sum rounded to nearest, ties to even, as the     *)
(* program's arithmetic rounds it.  Subnormal numbers, infinities and NaN  *)
(* are not modelled: no run within the bounds comes near them.  Budgets    *)
(* are kept in KB (1 MB = 1024 KB) and times in whole seconds.  The        *)
(* numbers of the Pattern Learning Engine are exact fractions; see its     *)
(* section.                                                                *)
(***************************************************************************)
EXTENDS Integers, Sequences, FiniteSets, TLC

(***************************************************************************)
(* Bounds of the model.                                                    *)
(***************************************************************************)
\* record_connection_result(false, _) calls explored
MaxFailures == 13
\* record_connection_result(true, Some(_)) calls explored
MaxSuccesses == 1
\* adapt_stealth_strategy calls explored
MaxAdaptations == 2
\* successful mimicry rounds explored in a row of rounds
MaxMimicryOk == 100
\* failed mimicry rounds explored in a row of rounds
MaxMimicryErr == 1
\* seconds of ticks shorter than an hour explored between two budget resets
MaxShortTime == 60
\* run_loop tasks spawned and not yet entered
MaxSpawned == 1
\* loop tasks of one component that are alive or spawned at one time
MaxLoops == 2
\* seconds explored between two server rotations
MaxRotationTime == 240
\* training passes that write the learning model explored
MaxTrainings == 2

\* tasks that start_monitoring spawns
MaxMonitorTasks == 3

\* measurements that the monitoring tasks save
MaxMeasured == 1

VARIABLES
    \* AdaptiveStealthState (stealth.rs 53-61)
    current_risk_level,
    consecutive_failures,
    effectiveness_score,
    adaptation_count,
    \* RotationState.rotation_interval, seconds (stealth.rs 65-70)
    rotation_interval,
    \* number of record_connection_result(true, Some(_)) calls made so far
    ema_updates,
    \* SharedAppState.optimization_mode (app_state.rs 4-13)
    optimization_mode,
    \* ThroughputKeeper fields (keeper.rs 35-43); budget usage in KB
    config,
    is_running,
    hourly_budget_used_kb,
    \* Utc::now() - last_reset at the start of the next tick, in seconds
    since_last_reset,
    \* run_loop tasks spawned by start() that have not entered run_loop yet
    spawned,
    \* whether the run_loop instance the model follows is inside its loop
    loop_alive,
    \* locals of run_loop (keeper.rs 201-203); last_change is held as
    \* last_change.elapsed() at the start of the next tick, in seconds
    cadence,
    since_last_change,
    last_burst_kb,
    \* seconds, at the start of the next tick, since the cadence last took a
    \* different value (or since run_loop started)
    since_transition,
    \* what the latest tick of run_loop did
    last_tick,
    \* number of run_loop instances that are inside their loop
    keeper_loops,
    \* StealthEngine.stealth_level and the servers of its server_pool
    stealth_level,
    server_pool,
    \* StealthEngine.is_active
    is_active,
    \* RotationState (stealth.rs 65-70); last_rotation is held as
    \* last_rotation.elapsed() at the start of the next cycle, in seconds
    servers_in_rotation,
    current_server_index,
    since_last_rotation,
    \* server ids that have an entry in active_connections
    active_connections,
    \* number of run_stealth_loop tasks that have not returned
    stealth_loops,
    \* the latest start() or stop() of the engine and what it returned
    last_call,
    \* what the latest execute_stealth_cycle did
    last_cycle,
    \* the speed_measurements and the current ISP profile of the Repository
    \* (repository.rs 36-63, 83-106)
    store,
    isp_profile,
    \* DefaultIntelligenceCore fields (intelligence.rs 318-322)
    learning_model,
    min_learning_days,
    \* the latest call made on the intelligence core and what it returned
    last_op,
    \* the task of DecisionEngine::run (intelligence.rs 1222-1249): the step it
    \* is at, the cycles it has finished, the steps that failed in this cycle
    \* and what it has logged in this cycle
    decision_engine,
    \* BackgroundMonitor (monitor.rs 74-81): is_running, shutdown_tx, the tasks
    \* that start_monitoring has spawned with the state of the channel each one
    \* listens on, the measurements saved and the latest call
    monitor,
    \* the tasks that run a stealth cycle, get_stealth_stats and
    \* get_dpi_bypass_stats on one StealthEngine: where each one is, and the holders of its RwLocks
    \* (stealth.rs 83-92)
    task_pc,
    rwlocks

stealthVars == <<current_risk_level, consecutive_failures, effectiveness_score,
                 adaptation_count, rotation_interval, ema_updates>>

loopLocals == <<cadence, since_last_change, last_burst_kb, since_transition, last_tick>>

keeperVars == <<optimization_mode, config, is_running, hourly_budget_used_kb,
                since_last_reset, spawned, loop_alive, keeper_loops, loopLocals>>

rotationVars == <<servers_in_rotation, current_server_index, since_last_rotation>>

engineVars == <<stealth_level, server_pool, is_active, rotationVars,
                active_connections, stealth_loops, last_call, last_cycle>>

learningVars == <<store, isp_profile, learning_model, min_learning_days, last_op>>

lockVars == <<task_pc, rwlocks>>

taskVars == <<decision_engine, monitor, lockVars>>

vars == <<stealthVars, keeperVars, engineVars, learningVars, taskVars>>

(***************************************************************************)
(* f64 arithmetic.  A positive f64 is [sig |-> s, exp |-> e] with value    *)
(* s * 2^e, where s is a 53-bit integer (2^52 <= s < 2^53) held as four    *)
(* 14-bit limbs, least significant first; zero has all limbs 0.            *)
(***************************************************************************)
Limb == 2^14

LimbAt(n, i) == IF i \in DOMAIN n THEN n[i] ELSE 0

\* bit b (from 0) of the integer n
BitAt(n, b) == (LimbAt(n, (b \div 14) + 1) \div 2^(b % 14)) % 2

Wide(n) == [j \in 1..8 |-> LimbAt(n, j)]

RECURSIVE CarryOut(_, _)
\* carry out of column j when the columns 1..j are reduced to limbs
CarryOut(cols, j) ==
    IF j = 0 THEN 0 ELSE (cols[j] + CarryOut(cols, j - 1)) \div Limb

Carried(cols) ==
    [j \in DOMAIN cols |-> (cols[j] + CarryOut(cols, j - 1)) % Limb]

\* the exact product of two 4-limb integers, 8 limbs
MulWide(a, b) ==
    Carried([j \in 1..8 |->
        a[1] * LimbAt(b, j) + a[2] * LimbAt(b, j - 1)
          + a[3] * LimbAt(b, j - 2) + a[4] * LimbAt(b, j - 3)])

AddWide(a, b) == Carried([j \in 1..8 |-> a[j] + b[j]])

\* n * 2^d, 8 limbs
ShiftLeftWide(n, d) ==
    LET q == d \div 14
        r == d % 14
    IN  [j \in 1..8 |-> ((LimbAt(n, j - q) * 2^r) % Limb)
                          + (LimbAt(n, j - q - 1) \div 2^(14 - r))]

\* floor(n / 2^k), 4 limbs
ShiftRight(n, k) ==
    LET q == k \div 14
        r == k % 14
    IN  [j \in 1..4 |-> (LimbAt(n, j + q) \div 2^r)
                          + (LimbAt(n, j + q + 1) % 2^r) * 2^(14 - r)]

\* some bit of n below bit k-1 is set
Sticky(n, k) ==
    LET b == k - 1
    IN  \E i \in DOMAIN n :
            \/ i - 1 < b \div 14 /\ n[i] # 0
            \/ i - 1 = b \div 14 /\ n[i] % 2^(b % 14) # 0

Increment(n) ==
    [j \in DOMAIN n |->
        IF \A i \in 1..(j - 1) : n[i] = Limb - 1 THEN (n[j] + 1) % Limb ELSE n[j]]

\* n / 2^k rounded to the nearest integer, ties to the even one
RoundNearestEven(n, k) ==
    LET q == ShiftRight(n, k)
    IN  IF k > 0 /\ BitAt(n, k - 1) = 1 /\ (Sticky(n, k) \/ q[1] % 2 = 1)
        THEN Increment(q)
        ELSE q

F64Zero == [sig |-> <<0, 0, 0, 0>>, exp |-> 0]

IsZero(x) == x.sig = <<0, 0, 0, 0>>

\* a rounding that carried into bit 53 leaves 2^53, which is 2^52 * 2
Normal(sig, exp) ==
    IF BitAt(sig, 53) = 1
    THEN [sig |-> ShiftRight(sig, 1), exp |-> exp + 1]
    ELSE [sig |-> sig, exp |-> exp]

\* x * y, rounded
FMul(x, y) ==
    IF IsZero(x) \/ IsZero(y) THEN F64Zero
    ELSE LET p == MulWide(x.sig, y.sig)
             k == IF BitAt(p, 105) = 1 THEN 53 ELSE 52
         IN  Normal(RoundNearestEven(p, k), x.exp + y.exp + k)

\* x + y, rounded
FAdd(x, y) ==
    IF IsZero(x) THEN y
    ELSE IF IsZero(y) THEN x
    ELSE LET hi == IF x.exp >= y.exp THEN x ELSE y
             lo == IF x.exp >= y.exp THEN y ELSE x
             d == hi.exp - lo.exp
         IN  IF d > 55 THEN hi
             ELSE LET s == AddWide(ShiftLeftWide(hi.sig, d), Wide(lo.sig))
                      k == IF BitAt(s, 53 + d) = 1 THEN d + 1 ELSE d
                  IN  Normal(RoundNearestEven(s, k), lo.exp + k)

SigLess(a, b) ==
    \E i \in 1..4 : a[i] < b[i] /\ \A j \in (i + 1)..4 : a[j] = b[j]

\* x < y
FLess(x, y) ==
    IF IsZero(y) THEN FALSE
    ELSE IF IsZero(x) THEN TRUE
    ELSE x.exp < y.exp \/ (x.exp = y.exp /\ SigLess(x.sig, y.sig))

\* the f64 literals of the program: 0.3 = 0x1.3333333333333p-2,
\* 0.6 = 0x1.3333333333333p-1, 0.7 = 0x1.6666666666666p-1,
\* 0.8 = 0x1.999999999999ap-1, 0.9 = 0x1.ccccccccccccdp-1, 1.0
F64_0_3 == [sig |-> <<13107, 3276, 13107, 1228>>, exp |-> -54]

F64_0_6 == [sig |-> <<13107, 3276, 13107, 1228>>, exp |-> -53]

F64_0_7 == [sig |-> <<9830, 6553, 9830, 1433>>, exp |-> -53]

F64_0_8 == [sig |-> <<6554, 9830, 6553, 1638>>, exp |-> -53]

F64_0_9 == [sig |-> <<3277, 13107, 3276, 1843>>, exp |-> -53]

F64_1_0 == [sig |-> <<0, 0, 0, 1024>>, exp |-> -52]

(***************************************************************************)
(* Stealth Engine: detection risk and effectiveness (stealth.rs)           *)
(***************************************************************************)
DetectionRisk == {"Low", "Medium", "High", "Critical"}

\* Option<f64>: None is <<>>, Some(e) is <<e>>
NoEffectiveness == << >>

Some(e) == <<e>>

\* effectiveness values reported with a success: 0.0, 0.8 and 1.0;
\* generate_mimicry_traffic reports Some(0.8)
EffectivenessValues == {F64Zero, F64_0_8, F64_1_0}

\* a variant whose bands start one failure late
FailureRisk_OneLate(failures) ==
    IF failures <= 3 THEN "Low"
    ELSE IF failures <= 6 THEN "Medium"
    ELSE IF failures <= 12 THEN "High"
    ELSE "Critical"

FailureRisk(failures) ==
    IF failures <= 2 THEN "Low"
    ELSE IF failures <= 5 THEN "Medium"
    ELSE IF failures <= 11 THEN "High"
    ELSE "Critical"

EffectivenessRisk(score) ==
    IF FLess(score, F64_0_3) THEN "High"
    ELSE IF FLess(score, F64_0_6) THEN "Medium"
    ELSE "Low"

\* a variant that looks at the failures only
AssessDetectionRisk_FailuresOnly(failures, score) == FailureRisk(failures)

\* assess_detection_risk: the higher of the two risk levels
AssessDetectionRisk(failures, score) ==
    LET failure_risk == FailureRisk(failures)
        effectiveness_risk == EffectivenessRisk(score)
    IN  IF failure_risk = "Critical" \/ effectiveness_risk = "Critical" THEN "Critical"
        ELSE IF failure_risk = "High" \/ effectiveness_risk = "High" THEN "High"
        ELSE IF failure_risk = "Medium" \/ effectiveness_risk = "Medium" THEN "Medium"
        ELSE "Low"

\* a variant that drops the reported term
EmaOnSuccess_DecayOnly(score, eff) == FMul(F64_0_7, score)

\* a variant that adds the reported share to the whole score
EmaOnSuccess_Unweighted(score, eff) == FAdd(score, FMul(F64_0_3, eff))

\* exponential moving average on a success that reports an effectiveness:
\* 0.7 * effectiveness_score + 0.3 * eff
EmaOnSuccess(score, eff) == FAdd(FMul(F64_0_7, score), FMul(F64_0_3, eff))

\* decay on a failure: effectiveness_score *= 0.9
DecayOnFailure(score) == FMul(score, F64_0_9)

FailuresAfterFailure(failures) == failures + 1

\* a variant in which a success clears the counter
FailuresAfterSuccess_Reset(failures) == 0

FailuresAfterSuccess(failures) == failures

InitStealth ==
    /\ current_risk_level = "Low"
    /\ consecutive_failures = 0
    /\ effectiveness_score = F64_1_0
    /\ adaptation_count = 0
    /\ rotation_interval = 300
    /\ ema_updates = 0

RecordConnectionResult(success, effectiveness) ==
    /\ IF success
       THEN /\ consecutive_failures' = FailuresAfterSuccess(consecutive_failures)
            /\ IF effectiveness # NoEffectiveness
               THEN /\ effectiveness_score' =
                           EmaOnSuccess(effectiveness_score, effectiveness[1])
                    /\ ema_updates' = ema_updates + 1
               ELSE UNCHANGED <<effectiveness_score, ema_updates>>
       ELSE /\ consecutive_failures' = FailuresAfterFailure(consecutive_failures)
            /\ effectiveness_score' = DecayOnFailure(effectiveness_score)
            /\ UNCHANGED ema_updates
    /\ UNCHANGED <<current_risk_level, adaptation_count, rotation_interval>>
    /\ UNCHANGED <<keeperVars, learningVars, engineVars, taskVars>>

\* a variant that leaves the rotation interval alone at Medium risk
AdaptedRotationInterval_HighOnly(current_risk, interval) ==
    IF current_risk = "High" THEN 120 ELSE interval

\* the rotation interval after the match of adapt_stealth_strategy, seconds
AdaptedRotationInterval(current_risk, interval) ==
    CASE current_risk = "Medium" -> 180
      [] current_risk = "High" -> 120
      [] OTHER -> interval

\* a variant that counts an adaptation only when the risk level changed
NextAdaptationCount_OnChange(count, old_risk, current_risk) ==
    IF current_risk = old_risk THEN count ELSE count + 1

\* adaptive_state.adaptation_count += 1
NextAdaptationCount(count, old_risk, current_risk) == count + 1

\* a variant in which Critical risk ends the cycle before any traffic
AdaptResult_StopAtCritical(current_risk) ==
    IF current_risk = "Critical" THEN "Err" ELSE "Ok"

\* what adapt_stealth_strategy returns: Ok(()) after every arm of its match
AdaptResult(current_risk) == "Ok"

\* a variant in which an adaptation also forgets the recorded failures
AdaptStealthStrategy_ClearsFailures ==
    /\ adaptation_count < MaxAdaptations
    /\ current_risk_level' =
           AssessDetectionRisk(consecutive_failures, effectiveness_score)
    /\ adaptation_count' = adaptation_count + 1
    /\ consecutive_failures' = 0
    /\ UNCHANGED <<effectiveness_score, rotation_interval, ema_updates>>
    /\ UNCHANGED <<keeperVars, learningVars, engineVars, taskVars>>

\* adapt_stealth_strategy called by itself
AdaptStealthStrategy ==
    LET current_risk == AssessDetectionRisk(consecutive_failures, effectiveness_score)
    IN  /\ adaptation_count < MaxAdaptations
        /\ rotation_interval' = AdaptedRotationInterval(current_risk, rotation_interval)
        /\ current_risk_level' = current_risk
        /\ adaptation_count' =
               NextAdaptationCount(adaptation_count, current_risk_level, current_risk)
        /\ UNCHANGED <<consecutive_failures, effectiveness_score, ema_updates>>
        /\ UNCHANGED <<keeperVars, learningVars, engineVars, taskVars>>

\* record_connection_result(true, _) with any reported effectiveness or none
RecordSuccess ==
    \E effectiveness \in {Some(e) : e \in EffectivenessValues} \cup {NoEffectiveness} :
        /\ effectiveness # NoEffectiveness => ema_updates < MaxSuccesses
        /\ RecordConnectionResult(TRUE, effectiveness)

\* record_connection_result(false, None)
RecordFailure ==
    /\ consecutive_failures < MaxFailures
    /\ RecordConnectionResult(FALSE, NoEffectiveness)

StealthNext ==
    \/ RecordSuccess
    \/ RecordFailure
    \/ AdaptStealthStrategy

\* the end of a mimicry round that succeeded (generate_mimicry_traffic)
MimicryResultOk ==
    /\ ema_updates < MaxMimicryOk
    /\ RecordConnectionResult(TRUE, Some(F64_0_8))

\* the end of a mimicry round that failed
MimicryResultErr ==
    /\ consecutive_failures < MaxMimicryErr
    /\ RecordConnectionResult(FALSE, NoEffectiveness)

\* a success reported without an effectiveness value
PlainSuccess == RecordConnectionResult(TRUE, NoEffectiveness)

MimicryResultsNext ==
    \/ MimicryResultOk
    \/ MimicryResultErr
    \/ PlainSuccess

(***************************************************************************)
(* Throughput Keeper (keeper.rs)                                           *)
(***************************************************************************)
KeeperCadence == {"Warmup", "Steady", "Recovery", "Suspended"}

\* ThroughputKeeperConfig as run_loop reads it: hourly_budget_mb is held in
\* KB, tighten_threshold_drop in tenths, quiet_hours None as the empty set
BaseConfig ==
    [enabled |-> TRUE,
     quiet_hours |-> {},
     hourly_budget_kb |-> 256,
     burst_sizes_kb |-> <<64, 128>>,
     tighten_threshold_drop |-> 3,
     relax_threshold_stability_s |-> 10]

\* the configurations set_throughput_keeper passes to update_config
KeeperConfigs ==
    {BaseConfig,
     [BaseConfig EXCEPT !.enabled = FALSE],
     [BaseConfig EXCEPT !.quiet_hours = {1}],
     [BaseConfig EXCEPT !.hourly_budget_kb = 0],
     [BaseConfig EXCEPT !.relax_threshold_stability_s = 5]}

\* Utc::now().hour() as a tick can read it
HoursOfDay == {0, 1}

\* what get_speed_measurements_since(now - 40 s) can return: an error, or
\* the download_mbps of the samples of the last 20 s and of the 20 s before
StoreError == [ok |-> FALSE, last20 |-> << >>, prev20 |-> << >>]

Samples(last20, prev20) == [ok |-> TRUE, last20 |-> last20, prev20 |-> prev20]

RecentMetrics ==
    {StoreError,
     Samples(<< >>, << >>),
     Samples(<< >>, <<10>>),
     Samples(<<10>>, <<10>>),
     Samples(<<5>>, <<10, 10>>),
     Samples(<<7>>, <<10>>)}

\* seconds a tick can take from its start to the start of the next one
ElapsedChoices == {5, 10, 30, 3600}

RECURSIVE SumSeq(_)
SumSeq(s) == IF s = << >> THEN 0 ELSE Head(s) + SumSeq(Tail(s))

MinOf(S) == CHOOSE x \in S : \A y \in S : x <= y

MaxOf(S) == CHOOSE x \in S : \A y \in S : x >= y

SeqRange(s) == {s[i] : i \in 1..Len(s)}

\* jitter_secs(base, 0.15): base +/- up to 15%, at least 1
JitterSecs(base) ==
    LET jitter == (base * 15) \div 100
    IN  {MaxOf({base + delta, 1}) : delta \in (0 - jitter)..jitter}

\* a variant whose Warmup size is the smallest configured size, without
\* the floor of 64 KB
ChooseBurstSizeKb_NoFloor(cfg, cad, last_size) ==
    LET sizes == SeqRange(cfg.burst_sizes_kb)
        min_size == IF sizes = {} THEN 64 ELSE MinOf(sizes)
        max_size == IF sizes = {} THEN 256 ELSE MaxOf(sizes)
    IN  CASE cad = "Warmup" -> min_size
          [] cad = "Recovery" -> MinOf({last_size * 2, max_size})
          [] cad = "Steady" -> last_size
          [] cad = "Suspended" -> 0

\* choose_burst_size_kb
ChooseBurstSizeKb(cfg, cad, last_size) ==
    LET sizes == SeqRange(cfg.burst_sizes_kb)
        min_size == IF sizes = {} THEN 64 ELSE MinOf(sizes)
        max_size == IF sizes = {} THEN 256 ELSE MaxOf(sizes)
    IN  CASE cad = "Warmup" -> MaxOf({min_size, 64})
          [] cad = "Recovery" -> MinOf({last_size * 2, max_size})
          [] cad = "Steady" -> last_size
          [] cad = "Suspended" -> 0

ShouldQuietHour(cfg, hour) == hour \in cfg.quiet_hours

\* a variant that does not look at the enabled field of the configuration
SuspendedByFlags_IgnoresConfig(enabled, cfg, hour) ==
    ~enabled \/ ShouldQuietHour(cfg, hour)

\* !enabled || !cfg.enabled || should_quiet_hour(&cfg)
SuspendedByFlags(enabled, cfg, hour) ==
    ~enabled \/ ~cfg.enabled \/ ShouldQuietHour(cfg, hour)

\* a variant that resets every minute
ResetDue_EveryMinute(since_reset) == since_reset >= 60

\* reset_budget_if_needed: an hour or more since the last reset
ResetDue(since_reset) == since_reset >= 3600

\* get_recent_metrics: the trend ratio avg_last / avg_prev as a fraction
TrendRatio(samples) ==
    IF ~samples.ok THEN [num |-> 1, den |-> 1]
    ELSE
      LET avg_last == IF samples.last20 = << >> THEN [num |-> 0, den |-> 1]
                      ELSE [num |-> SumSeq(samples.last20), den |-> Len(samples.last20)]
          avg_prev == IF samples.prev20 = << >> THEN avg_last
                      ELSE [num |-> SumSeq(samples.prev20), den |-> Len(samples.prev20)]
      IN  IF avg_prev.num * 10000 <= avg_prev.den THEN [num |-> 1, den |-> 1]
          ELSE [num |-> avg_last.num * avg_prev.den, den |-> avg_last.den * avg_prev.num]

\* a variant with a strict comparison
DropDetected_Strict(trend, cfg) ==
    10 * trend.num < (10 - cfg.tighten_threshold_drop) * trend.den

\* trend <= 1.0 - tighten_threshold_drop
DropDetected(trend, cfg) ==
    10 * trend.num <= (10 - cfg.tighten_threshold_drop) * trend.den

\* last_change.elapsed().as_secs() >= relax_threshold_stability_s
StableEnough(elapsed, cfg) == elapsed >= cfg.relax_threshold_stability_s

\* a variant that resumes in Steady after a suspension
NextCadence_ResumeSteady(cad, stable_enough, drop_detected) ==
    CASE cad = "Warmup" -> IF stable_enough THEN "Steady" ELSE "Warmup"
      [] cad = "Steady" -> IF drop_detected THEN "Recovery" ELSE "Steady"
      [] cad = "Recovery" -> IF stable_enough THEN "Steady" ELSE "Recovery"
      [] cad = "Suspended" -> "Steady"

\* the cadence state machine of run_loop
NextCadence(cad, stable_enough, drop_detected) ==
    CASE cad = "Warmup" -> IF stable_enough THEN "Steady" ELSE "Warmup"
      [] cad = "Steady" -> IF drop_detected THEN "Recovery" ELSE "Steady"
      [] cad = "Recovery" -> IF stable_enough THEN "Steady" ELSE "Recovery"
      [] cad = "Suspended" -> "Warmup"

\* last_change.elapsed() after the cadence step: last_change = Instant::now()
\* when the new cadence is Recovery or Warmup
NextLastChange(new_cadence, elapsed) ==
    IF new_cadence \in {"Recovery", "Warmup"} THEN 0 ELSE elapsed

\* base interval by cadence, stretched as the budget fills up
StretchedInterval(cad, used_kb, cfg) ==
    LET base_interval == CASE cad = "Warmup" -> 5
                           [] cad = "Recovery" -> 5
                           [] cad = "Steady" -> 10
                           [] cad = "Suspended" -> 15
        \* budget_mb.max(0.001), times 1024 * 1000
        budget == MaxOf({cfg.hourly_budget_kb * 1000, 1024})
    IN  base_interval
          + (IF used_kb * 1000 * 10 > 8 * budget THEN 5 ELSE 0)
          + (IF used_kb * 1000 * 10 > 9 * budget THEN 10 ELSE 0)

\* seconds slept after `fails` failed attempts: 2^0 + 2^1 + ...
Backoff(fails) == CASE fails = 0 -> 0 [] fails = 1 -> 1 [] fails = 2 -> 3 [] OTHER -> 7

\* whether the target of a burst answers the requests of one tick
Networks == {"up", "down"}

\* perform_burst: the error of Client::builder().build() is returned with `?`;
\* the results of the HEAD and GET requests are dropped and Ok(()) returned
PerformBurst(build_ok, net) == IF build_ok THEN "Ok" ELSE "Err"

\* the sleeps of the retry loop after `failed` failed attempts: 2^attempt s
BackoffWaits(failed) == [i \in 1..failed |-> 2 ^ (i - 1)]

\* no tick made yet
NoTick ==
    [path |-> "none", from |-> "Warmup", attempts |-> 0, reset |-> FALSE,
     size_kb |-> 0, success |-> FALSE, waits |-> << >>, events |-> 0,
     net |-> "up"]

\* ThroughputKeeper::new followed by the start() of the application setup
\* (main.rs 336-342): the first run_loop task is spawned
InitKeeper ==
    /\ optimization_mode = "Disabled"
    /\ config \in KeeperConfigs
    /\ is_running = FALSE
    /\ hourly_budget_used_kb = 0
    /\ since_last_reset = 0
    /\ spawned = 1
    /\ loop_alive = FALSE
    /\ keeper_loops = 0
    /\ cadence = "Warmup"
    /\ since_last_change = 0
    /\ last_burst_kb = 64
    /\ since_transition = 0
    /\ last_tick = NoTick

\* the largest relax_threshold_stability_s: longer times compare alike
StabilityCap == MaxOf({cfg.relax_threshold_stability_s : cfg \in KeeperConfigs})

Capped(age, cap) == IF age >= cap THEN cap ELSE age

\* the tick ends in its sleep: the next tick starts `elapsed` seconds later
Sleep(at_least, reset_age, change_age, transition_age) ==
    \E elapsed \in ElapsedChoices :
        /\ elapsed >= at_least
        /\ reset_age + elapsed <= MaxShortTime \/ reset_age + elapsed >= 3600
        /\ since_last_reset' = Capped(reset_age + elapsed, 3600)
        /\ since_last_change' = Capped(change_age + elapsed, StabilityCap)
        /\ since_transition' = Capped(transition_age + elapsed, StabilityCap)

\* one iteration of the loop of run_loop, from the flag check to the sleep;
\* `recent` is what get_speed_measurements_since returns in this iteration
\* and `hour` the hour of day it reads
KeeperTickNet(recent, hour, net) ==
    LET enabled == optimization_mode = "Enabled"
        cfg == config
        suspended_age == IF cadence = "Suspended" THEN since_transition ELSE 0
    IN
    IF SuspendedByFlags(enabled, cfg, hour)
    THEN /\ cadence' = "Suspended"
         /\ last_tick' = [NoTick EXCEPT !.path = "suspended", !.from = cadence,
                                         !.events = 1, !.net = net]
         /\ Sleep(3, since_last_reset, since_last_change, suspended_age)
         /\ UNCHANGED <<hourly_budget_used_kb, last_burst_kb>>
    ELSE
      LET reset == ResetDue(since_last_reset)
          used == IF reset THEN 0 ELSE hourly_budget_used_kb
          reset_age == IF reset THEN 0 ELSE since_last_reset
      IN
      IF used >= cfg.hourly_budget_kb
      THEN /\ cadence' = "Suspended"
           /\ last_tick' = [NoTick EXCEPT !.path = "over_budget", !.from = cadence,
                                           !.reset = reset, !.events = 1,
                                           !.net = net]
           /\ hourly_budget_used_kb' = used
           /\ Sleep(30, reset_age, since_last_change, suspended_age)
           /\ UNCHANGED last_burst_kb
      ELSE
        LET drop_detected == DropDetected(TrendRatio(recent), cfg)
            stable_enough == StableEnough(since_last_change, cfg)
            new_cadence == NextCadence(cadence, stable_enough, drop_detected)
            change_age == NextLastChange(new_cadence, since_last_change)
            transition_age == IF new_cadence = cadence THEN since_transition ELSE 0
            size_kb == ChooseBurstSizeKb(cfg, new_cadence, last_burst_kb)
        IN
        /\ cadence' = new_cadence
        /\ \E interval_s \in JitterSecs(StretchedInterval(new_cadence, used, cfg)) :
             IF size_kb = 0
             THEN \* sleep and continue: emit_progress is not reached
                  /\ last_tick' = [NoTick EXCEPT !.path = "skip", !.from = cadence,
                                                  !.reset = reset, !.net = net]
                  /\ hourly_budget_used_kb' = used
                  /\ UNCHANGED last_burst_kb
                  /\ Sleep(interval_s, reset_age, change_age, transition_age)
             ELSE \* the client cannot be built in the first `fails` attempts
                  \E fails \in 0..3 :
                  LET results == [i \in 1..3 |-> PerformBurst(i > fails, net)]
                      oks == {i \in 1..3 : results[i] = "Ok"}
                      success == oks # {}
                      attempts == IF success THEN MinOf(oks) ELSE 3
                      failed == IF success THEN attempts - 1 ELSE 3
                  IN  /\ last_tick' = [path |-> "burst", from |-> cadence,
                                       attempts |-> attempts, reset |-> reset,
                                       size_kb |-> size_kb, success |-> success,
                                       waits |-> BackoffWaits(failed),
                                       events |-> 1, net |-> net]
                      /\ hourly_budget_used_kb' =
                             IF success THEN used + size_kb ELSE used
                      /\ last_burst_kb' = IF success THEN size_kb ELSE last_burst_kb
                      /\ Sleep(Backoff(failed) + interval_s, reset_age, change_age,
                               transition_age)

\* one iteration of the loop while the target of the bursts answers
KeeperTick(recent, hour) == KeeperTickNet(recent, hour, "up")

\* the entry of a spawned run_loop task: it returns at once when is_running is
\* set, and otherwise sets it and starts its loop with fresh locals.  When an
\* older instance has not yet seen a stop(), both instances go on; the model
\* follows one of them, either one.
RunLoopEnter ==
    /\ spawned > 0
    /\ spawned' = spawned - 1
    /\ IF is_running
       THEN UNCHANGED <<is_running, loop_alive, keeper_loops, loopLocals>>
       ELSE /\ is_running' = TRUE
            /\ loop_alive' = TRUE
            /\ keeper_loops' = keeper_loops + 1
            /\ \/ /\ cadence' = "Warmup"
                  /\ since_last_change' = 0
                  /\ last_burst_kb' = 64
                  /\ since_transition' = 0
                  /\ last_tick' = NoTick
               \/ /\ loop_alive
                  /\ UNCHANGED loopLocals
    /\ UNCHANGED <<optimization_mode, config, hourly_budget_used_kb, since_last_reset>>
    /\ UNCHANGED <<stealthVars, engineVars, learningVars, taskVars>>

\* if !*self.is_running.read().await { break; }
RunLoopExit ==
    /\ loop_alive
    /\ ~is_running
    /\ keeper_loops' = keeper_loops - 1
    /\ loop_alive' = (keeper_loops' > 0)
    /\ UNCHANGED <<optimization_mode, config, is_running, hourly_budget_used_kb,
                   since_last_reset, spawned, loopLocals>>
    /\ UNCHANGED <<stealthVars, engineVars, learningVars, taskVars>>

RunLoopIteration ==
    /\ loop_alive
    /\ is_running
    /\ \E recent \in RecentMetrics, hour \in HoursOfDay : KeeperTick(recent, hour)
    /\ UNCHANGED <<optimization_mode, config, is_running, spawned, loop_alive,
                   keeper_loops>>
    /\ UNCHANGED <<stealthVars, engineVars, learningVars, taskVars>>

\* update_config: the configuration is replaced as given
UpdateConfig ==
    /\ \E cfg \in KeeperConfigs : config' = cfg
    /\ UNCHANGED <<optimization_mode, is_running, hourly_budget_used_kb,
                   since_last_reset, spawned, loop_alive, keeper_loops, loopLocals>>
    /\ UNCHANGED <<stealthVars, engineVars, learningVars, taskVars>>

\* toggle_optimization: the shared flag is flipped; start() spawns a run_loop
\* task when the flag becomes Enabled, stop() clears is_running when it
\* becomes Disabled
ToggleOptimization ==
    /\ IF optimization_mode = "Enabled"
       THEN /\ optimization_mode' = "Disabled"
            /\ is_running' = FALSE
            /\ UNCHANGED spawned
       ELSE /\ spawned < MaxSpawned
            /\ keeper_loops + spawned < MaxLoops
            /\ optimization_mode' = "Enabled"
            /\ spawned' = spawned + 1
            /\ UNCHANGED is_running
    /\ UNCHANGED <<config, hourly_budget_used_kb, since_last_reset, loop_alive,
                   keeper_loops, loopLocals>>
    /\ UNCHANGED <<stealthVars, engineVars, learningVars, taskVars>>

KeeperNext ==
    \/ RunLoopEnter
    \/ RunLoopExit
    \/ RunLoopIteration
    \/ UpdateConfig
    \/ ToggleOptimization

\* lists of burst sizes a configuration can hold: sorted, with a size below
\* 64 KB, unsorted, empty, and a single size of 0
BurstSizeLists == {<<64, 128>>, <<32, 128>>, <<256, 64>>, << >>, <<0>>}

\* update_config with a configuration that differs in its burst sizes
UpdateBurstSizes ==
    /\ \E sizes \in BurstSizeLists :
           config' = [BaseConfig EXCEPT !.burst_sizes_kb = sizes]
    /\ UNCHANGED <<optimization_mode, is_running, hourly_budget_used_kb,
                   since_last_reset, spawned, loop_alive, keeper_loops, loopLocals>>
    /\ UNCHANGED <<stealthVars, engineVars, learningVars, taskVars>>

\* the measurements of a stable and of a dropping download speed
BurstMetrics == {Samples(<<10>>, <<10>>), Samples(<<5>>, <<10, 10>>)}

\* one iteration of the loop of run_loop with any answer of the target
BurstLoopIteration ==
    /\ loop_alive
    /\ is_running
    /\ \E recent \in BurstMetrics, net \in Networks : KeeperTickNet(recent, 0, net)
    /\ UNCHANGED <<optimization_mode, config, is_running, spawned, loop_alive,
                   keeper_loops>>
    /\ UNCHANGED <<stealthVars, engineVars, learningVars, taskVars>>

\* the Keeper under changes of its burst sizes, with any answer of the target
BurstNext ==
    \/ BurstLoopIteration
    \/ UpdateBurstSizes

(***************************************************************************)
(* Stealth Engine: start, stop, rotation and the stealth cycle             *)
(* (stealth.rs)                                                            *)
(***************************************************************************)
StealthLevels == {"Low", "Medium", "High", "Maximum"}

\* Option<f64> distance of a server: None is <<>>, Some(d) is <<d>>
NoDistance == << >>

Server(id, country, distance) ==
    [server_id |-> id, country |-> country, distance |-> distance]

\* the countries select_suitable_servers asks for, in its order
RegionalCountries == <<"Sri Lanka", "Singapore", "India">>

\* server pools: none; one with regional servers; one with six servers
\* outside the region, one of them of unknown distance
ServerPools ==
    { << >>,
      << Server(1, "United States", <<5>>), Server(2, "Singapore", <<30>>),
         Server(3, "Sri Lanka", <<40>>) >>,
      << Server(1, "Japan", <<60>>), Server(2, "Japan", NoDistance),
         Server(3, "Japan", <<20>>), Server(4, "Japan", <<50>>),
         Server(5, "Japan", <<10>>), Server(6, "Japan", <<40>>) >> }

\* ServerPool::get_regional_servers: the servers of a country, in pool order
GetRegionalServers(pool, country) ==
    SelectSeq(pool, LAMBDA s : s.country = country)

\* the comparison of get_closest_servers: a sorts before b
Closer(a, b) ==
    /\ a.distance # NoDistance
    /\ b.distance = NoDistance \/ a.distance[1] < b.distance[1]

\* x put into a sorted sequence behind every element it does not precede
InsertByDistance(x, sorted) ==
    LET before == {i \in 1..Len(sorted) : \A j \in 1..i : ~Closer(x, sorted[j])}
        k == Cardinality(before)
    IN  SubSeq(sorted, 1, k) \o <<x>> \o SubSeq(sorted, k + 1, Len(sorted))

RECURSIVE SortByDistance(_)
\* the stable sort of get_closest_servers
SortByDistance(pool) ==
    IF pool = << >> THEN << >>
    ELSE InsertByDistance(pool[Len(pool)], SortByDistance(SubSeq(pool, 1, Len(pool) - 1)))

\* ServerPool::get_closest_servers(count)
GetClosestServers(pool, count) ==
    LET sorted == SortByDistance(pool)
    IN  SubSeq(sorted, 1, IF Len(sorted) < count THEN Len(sorted) ELSE count)

\* a variant that falls back to every server of the pool
SelectSuitableServers_WholePool(pool) == pool

\* select_suitable_servers: the regional servers, else the 5 closest; the
\* empty sequence stands for the error NetworkUnavailable
SelectSuitableServers(pool) ==
    LET regional_servers ==
            GetRegionalServers(pool, RegionalCountries[1])
              \o GetRegionalServers(pool, RegionalCountries[2])
              \o GetRegionalServers(pool, RegionalCountries[3])
    IN  IF regional_servers # << >> THEN regional_servers
        ELSE GetClosestServers(pool, 5)

BaseRotationInterval(level) ==
    CASE level = "Low" -> 900
      [] level = "Medium" -> 600
      [] level = "High" -> 300
      [] level = "Maximum" -> 180

\* calculate_rotation_interval: the base plus 0 .. base/4 - 1 seconds; the
\* two ends of the range
RotationIntervals(level) ==
    {BaseRotationInterval(level),
     BaseRotationInterval(level) + (BaseRotationInterval(level) \div 4) - 1}

\* the longest rotation interval: longer times since a rotation compare alike
RotationCap ==
    MaxOf({300} \cup UNION {RotationIntervals(level) : level \in StealthLevels})

NoCall == [op |-> "none", result |-> "Ok", was_active |-> FALSE]

NoCycle ==
    [path |-> "none", result |-> "Ok", rotated |-> FALSE, adapted |-> FALSE,
     risk |-> "Low", paused |-> FALSE, net |-> "up", records |-> 0,
     recorded |-> "none", mode |-> "Disabled"]

\* StealthEngine::new: inactive, empty rotation set, no connections
InitEngine ==
    /\ stealth_level \in StealthLevels
    /\ server_pool \in ServerPools
    /\ is_active = FALSE
    /\ servers_in_rotation = << >>
    /\ current_server_index = 0
    /\ since_last_rotation = 0
    /\ active_connections = {}
    /\ stealth_loops = 0
    /\ last_call = NoCall
    /\ last_cycle = NoCycle

\* start(): Ok at once when active; otherwise the rotation set and interval
\* are initialised and the engine becomes active, or the error of
\* select_suitable_servers is returned before anything is written
StartEngine ==
    /\ IF is_active
       THEN /\ last_call' = [op |-> "start", result |-> "Ok", was_active |-> TRUE]
            /\ UNCHANGED <<is_active, servers_in_rotation, rotation_interval>>
       ELSE LET suitable_servers == SelectSuitableServers(server_pool)
            IN  IF suitable_servers = << >>
                THEN /\ last_call' =
                            [op |-> "start", result |-> "Err", was_active |-> FALSE]
                     /\ UNCHANGED <<is_active, servers_in_rotation, rotation_interval>>
                ELSE /\ servers_in_rotation' = suitable_servers
                     /\ rotation_interval' \in RotationIntervals(stealth_level)
                     /\ is_active' = TRUE
                     /\ last_call' =
                            [op |-> "start", result |-> "Ok", was_active |-> FALSE]
    /\ UNCHANGED <<current_server_index, since_last_rotation, active_connections>>
    /\ UNCHANGED <<stealth_level, server_pool, last_cycle>>
    /\ UNCHANGED <<current_risk_level, consecutive_failures, effectiveness_score,
                   adaptation_count, ema_updates>>

\* start() called by itself
Start == StartEngine /\ UNCHANGED <<stealth_loops, keeperVars, learningVars, taskVars>>

\* a variant of stop() that leaves the connections of an active engine open
StopEngine_KeepsConnections ==
    /\ IF ~is_active
       THEN /\ last_call' = [op |-> "stop", result |-> "Ok", was_active |-> FALSE]
            /\ UNCHANGED <<is_active, active_connections>>
       ELSE /\ UNCHANGED active_connections
            /\ is_active' = FALSE
            /\ last_call' = [op |-> "stop", result |-> "Ok", was_active |-> TRUE]
    /\ UNCHANGED <<stealth_level, server_pool, rotationVars, last_cycle>>
    /\ UNCHANGED stealthVars

\* stop(): Ok at once when not active; otherwise the connections are cleared
\* and the engine becomes inactive
StopEngine ==
    /\ IF ~is_active
       THEN /\ last_call' = [op |-> "stop", result |-> "Ok", was_active |-> FALSE]
            /\ UNCHANGED <<is_active, active_connections>>
       ELSE /\ active_connections' = {}
            /\ is_active' = FALSE
            /\ last_call' = [op |-> "stop", result |-> "Ok", was_active |-> TRUE]
    /\ UNCHANGED <<stealth_level, server_pool, rotationVars, last_cycle>>
    /\ UNCHANGED stealthVars

\* stop() called by itself
Stop == StopEngine /\ UNCHANGED <<stealth_loops, keeperVars, learningVars, taskVars>>

\* should_rotate_servers
ShouldRotateServers(since_rotation, interval) == since_rotation >= interval

\* a rotation that does not wrap at the end of the list
NextServerIndex_NoWrap(index, servers) == index + 1

\* rotate_servers on a non-empty rotation set: the next index
NextServerIndex(index, servers) == (index + 1) % Len(servers)

\* rotate_servers called by itself
RotateServers ==
    /\ IF servers_in_rotation = << >>
       THEN UNCHANGED <<current_server_index, since_last_rotation,
                        rotation_interval, active_connections>>
       ELSE /\ current_server_index' =
                   NextServerIndex(current_server_index, servers_in_rotation)
            /\ since_last_rotation' = 0
            /\ rotation_interval' \in RotationIntervals(stealth_level)
            /\ active_connections' = active_connections
                   \ {servers_in_rotation[current_server_index + 1].server_id}
    /\ UNCHANGED <<stealth_level, server_pool, is_active, servers_in_rotation,
                   stealth_loops, last_call, last_cycle>>
    /\ UNCHANGED <<current_risk_level, consecutive_failures, effectiveness_score,
                   adaptation_count, ema_updates>>
    /\ UNCHANGED <<keeperVars, learningVars, taskVars>>

\* get_stealth_stats and get_dpi_bypass_stats: snapshots under read locks
GetStealthStats == UNCHANGED vars

\* update_stealth_level: the level is replaced and the rotation interval is
\* drawn again
UpdateStealthLevel ==
    /\ \E new_level \in StealthLevels :
           /\ stealth_level' = new_level
           /\ rotation_interval' \in RotationIntervals(new_level)
    /\ UNCHANGED <<server_pool, is_active, rotationVars, active_connections,
                   stealth_loops, last_call, last_cycle>>
    /\ UNCHANGED <<current_risk_level, consecutive_failures, effectiveness_score,
                   adaptation_count, ema_updates>>
    /\ UNCHANGED <<keeperVars, learningVars, taskVars>>

\* what the network does in one mimicry round: the endpoint answers every
\* request ("up"), answers but the first request fails ("partial"), or no
\* connection to it can be made at all ("down"); and whether
\* ClientBuilder::build succeeds
CycleOutcomes == [net : {"up", "partial", "down"}, client_ok : BOOLEAN]

\* seconds from the start of one cycle to the start of the next
CycleElapsed == {60, 180}

\* send_raw_stealth_traffic: an error of the connection or of a write is
\* returned
RawTrafficResult(net) == IF net = "up" THEN "Ok" ELSE "Err"

\* send_speedtest_mimicry_requests followed by send_heavy_range_gets: every
\* error of a request is turned into Ok
HttpTrafficResult(net) == "Ok"

\* the sub-requests whose success calls update_connection_stats
ConnectionSeen(net) == net # "down"

\* execute_stealth_cycle: rotation when due, then generate_mimicry_traffic
\* (adapt_stealth_strategy, the round, record_connection_result), then the
\* keep-alive pass; the next cycle starts elapsed seconds later
ExecuteStealthCycle(outcome, elapsed) ==
    LET rotates == /\ ShouldRotateServers(since_last_rotation, rotation_interval)
                   /\ servers_in_rotation # << >>
        index == IF rotates
                 THEN NextServerIndex(current_server_index, servers_in_rotation)
                 ELSE current_server_index
        kept_connections ==
            IF rotates
            THEN active_connections
                   \ {servers_in_rotation[current_server_index + 1].server_id}
            ELSE active_connections
        current_risk == AssessDetectionRisk(consecutive_failures, effectiveness_score)
        raw == stealth_level = "Maximum"
        since == IF rotates THEN 0 ELSE since_last_rotation
    IN  /\ since + elapsed <= MaxRotationTime
        /\ current_server_index' = index
        /\ since_last_rotation' = Capped(since + elapsed, RotationCap)
        /\ IF servers_in_rotation = << >>
           THEN \* generate_mimicry_traffic returns Ok(()) at once
                /\ last_cycle' = [NoCycle EXCEPT !.path = "empty",
                                                 !.mode = optimization_mode]
                /\ UNCHANGED <<stealthVars, active_connections>>
           ELSE /\ adaptation_count < MaxAdaptations
                /\ \E rotated_interval \in
                        IF rotates THEN RotationIntervals(stealth_level)
                        ELSE {rotation_interval} :
                     rotation_interval' =
                         AdaptedRotationInterval(current_risk, rotated_interval)
                /\ current_risk_level' = current_risk
                /\ adaptation_count' =
                       NextAdaptationCount(adaptation_count, current_risk_level,
                                           current_risk)
                /\ IF AdaptResult(current_risk) # "Ok"
                   THEN /\ last_cycle' =
                               [path |-> "adapt_error", result |-> "Err",
                                rotated |-> rotates, adapted |-> TRUE,
                                risk |-> current_risk,
                                paused |-> (current_risk = "Critical"),
                                net |-> outcome.net, records |-> 0,
                                recorded |-> "none", mode |-> optimization_mode]
                        /\ active_connections' = kept_connections
                        /\ UNCHANGED <<consecutive_failures, effectiveness_score,
                                       ema_updates>>
                   ELSE IF ~raw /\ ~outcome.client_ok
                   THEN \* create_authentic_speedtest_client()? returns the error
                        /\ last_cycle' =
                               [path |-> "client_error", result |-> "Err",
                                rotated |-> rotates, adapted |-> TRUE,
                                risk |-> current_risk,
                                paused |-> (current_risk = "Critical"),
                                net |-> outcome.net, records |-> 0,
                                recorded |-> "none", mode |-> optimization_mode]
                        /\ active_connections' = kept_connections
                        /\ UNCHANGED <<consecutive_failures, effectiveness_score,
                                       ema_updates>>
                   ELSE LET result == IF raw THEN RawTrafficResult(outcome.net)
                                      ELSE HttpTrafficResult(outcome.net)
                        IN  /\ raw => outcome.client_ok
                            /\ IF result = "Ok"
                               THEN /\ ema_updates < MaxMimicryOk
                                    /\ consecutive_failures' =
                                           FailuresAfterSuccess(consecutive_failures)
                                    /\ effectiveness_score' =
                                           EmaOnSuccess(effectiveness_score, F64_0_8)
                                    /\ ema_updates' = ema_updates + 1
                               ELSE /\ consecutive_failures < MaxFailures
                                    /\ consecutive_failures' =
                                           FailuresAfterFailure(consecutive_failures)
                                    /\ effectiveness_score' =
                                           DecayOnFailure(effectiveness_score)
                                    /\ UNCHANGED ema_updates
                            /\ active_connections' =
                                   IF ~raw /\ ConnectionSeen(outcome.net)
                                   THEN kept_connections
                                          \cup {servers_in_rotation[index + 1].server_id}
                                   ELSE kept_connections
                            /\ last_cycle' =
                                   [path |-> IF raw THEN "raw" ELSE "http",
                                    result |-> result,
                                    rotated |-> rotates, adapted |-> TRUE,
                                    risk |-> current_risk,
                                    paused |-> (current_risk = "Critical"),
                                    net |-> outcome.net, records |-> 1,
                                    recorded |-> IF result = "Ok" THEN "success"
                                                 ELSE "failure",
                                    mode |-> optimization_mode]
        /\ UNCHANGED <<stealth_level, server_pool, is_active, servers_in_rotation,
                       stealth_loops, last_call>>

\* execute_stealth_cycle called by itself
StealthCycleCall ==
    /\ \E outcome \in CycleOutcomes, elapsed \in CycleElapsed :
           ExecuteStealthCycle(outcome, elapsed)
    /\ UNCHANGED <<keeperVars, learningVars, taskVars>>

\* the engine under the calls of its interface
EngineNext ==
    \/ Start
    \/ Stop
    \/ RotateServers
    \/ AdaptStealthStrategy
    \/ StealthCycleCall
    \/ GetStealthStats

\* run_stealth_loop: one pass of while *self.is_active.read().await
StealthLoopIteration ==
    /\ stealth_loops > 0
    /\ is_active
    /\ \E outcome \in CycleOutcomes, elapsed \in CycleElapsed :
           ExecuteStealthCycle(outcome, elapsed)
    /\ UNCHANGED <<keeperVars, learningVars, taskVars>>

\* run_stealth_loop returns when it reads is_active = false
StealthLoopExit ==
    /\ stealth_loops > 0
    /\ ~is_active
    /\ stealth_loops' = stealth_loops - 1
    /\ UNCHANGED <<stealth_level, server_pool, is_active, rotationVars,
                   active_connections, last_call, last_cycle>>
    /\ UNCHANGED <<stealthVars, keeperVars, learningVars, taskVars>>

(***************************************************************************)
(* The optimizer (optimizer.rs): both components started and stopped       *)
(***************************************************************************)
\* start_optimization: the flag is set, keeper.start() spawns a run_loop
\* task, stealth.start() is called and, unless it failed, a
\* run_stealth_loop task is spawned
StartOptimization ==
    /\ spawned < MaxSpawned
    /\ keeper_loops + spawned < MaxLoops
    /\ stealth_loops < MaxLoops
    /\ optimization_mode' = "Enabled"
    /\ spawned' = spawned + 1
    /\ StartEngine
    /\ stealth_loops' = IF last_call'.result = "Ok" THEN stealth_loops + 1
                        ELSE stealth_loops
    /\ UNCHANGED <<config, is_running, hourly_budget_used_kb, since_last_reset,
                   loop_alive, keeper_loops, loopLocals>>
    /\ UNCHANGED <<learningVars, taskVars>>

\* stop_optimization: the flag is cleared, keeper.stop() and stealth.stop()
StopOptimization ==
    /\ optimization_mode' = "Disabled"
    /\ is_running' = FALSE
    /\ StopEngine
    /\ UNCHANGED stealth_loops
    /\ UNCHANGED <<config, hourly_budget_used_kb, since_last_reset, spawned,
                   loop_alive, keeper_loops, loopLocals>>
    /\ UNCHANGED <<learningVars, taskVars>>

\* both components under start and stop requests: the loop instances of the
\* Keeper (its ticks are explored under KeeperNext) and the loop instances
\* and cycles of the Stealth Engine
LifecycleNext ==
    \/ StartOptimization
    \/ StopOptimization
    \/ ToggleOptimization
    \/ RunLoopEnter
    \/ RunLoopExit
    \/ StealthLoopIteration
    \/ StealthLoopExit

(***************************************************************************)
(* Pattern Learning Engine (intelligence.rs)                               *)
(*                                                                         *)
(* Numbers.  The engine's f64 values are held exactly: a performance score *)
(* is a whole number of hundredths, a confidence a whole number of         *)
(* 1/60000 (so that the factors 0.3, 0.4 and 0.6 and the mean over one,    *)
(* two or three strategies stay whole), and a weight, a speed or an        *)
(* improvement is a reduced fraction [num, den].  The samples explored     *)
(* keep every comparison away from a tie, where the rounding of the        *)
(* program's arithmetic could decide.                                      *)
(*                                                                         *)
(* Samples.  The store is a sequence of batches: a batch stands for n      *)
(* measurements that agree in every field the engine reads; age is the     *)
(* time between a measurement's timestamp and now, in days.                *)
(***************************************************************************)
Min(a, b) == IF a <= b THEN a ELSE b

Max(a, b) == IF a >= b THEN a ELSE b

RECURSIVE Gcd(_, _)
Gcd(a, b) == IF b = 0 THEN a ELSE Gcd(b, a % b)

\* the fraction num/den (den > 0) in lowest terms
Ratio(num, den) ==
    LET g == Gcd(IF num < 0 THEN -num ELSE num, den)
    IN  [num |-> num \div g, den |-> den \div g]

RatioLess(a, b) == a.num * b.den < b.num * a.den

\* a confidence given in thousandths, in units of 1/60000
Confidence(thousandths) == 60 * thousandths

Weekdays == <<"Mon", "Tue", "Wed", "Thu", "Fri", "Sat", "Sun">>

\* SpeedMeasurement::performance_score, in hundredths
PerformanceScore(m) ==
    LET download_score == Min(m.download_mbps, 100) \div 2
        upload_score == (Min(m.upload_mbps, 20) * 3) \div 2
        latency_score == Max(1000 - m.latency_ms, 0) \div 50
    IN  ((download_score + upload_score + latency_score) * m.confidence) \div 10

\* ISPProfile::is_known_throttling_isp on the lower-cased name
IsKnownThrottlingIsp(name) ==
    LET lowercase == [Hutch |-> "hutch", Fibernet |-> "fibernet"]
    IN  lowercase[name] \in {"hutch", "dialog", "mobitel", "airtel"}

\* n measurements at each hour of first..last, one weekday to an hour
Batches(first, last, age, active, n, mbps, upload, latency) ==
    [i \in 1..(last - first + 1) |->
        [hour |-> first + i - 1, weekday |-> Weekdays[((first + i - 1) % 7) + 1],
         age |-> age, optimization_active |-> active, n |-> n, download_mbps |-> mbps,
         upload_mbps |-> upload, latency_ms |-> latency, confidence |-> 10]]

\* 45 measurements of one throttled hour
FewMeasurements == Batches(20, 20, 2, FALSE, 45, 20, 4, 200)

\* 60 measurements of four throttled hours
BasicMeasurements ==
    Batches(19, 22, 2, FALSE, 10, 20, 4, 200) \o Batches(19, 22, 2, TRUE, 5, 60, 20, 50)

\* 720 measurements of all hours, throttled from 19 to 22 and faster with
\* the optimization active
ComprehensiveMeasurements ==
    Batches(0, 18, 3, FALSE, 15, 60, 20, 50) \o Batches(0, 18, 3, TRUE, 8, 90, 20, 50)
        \o Batches(0, 18, 10, TRUE, 7, 90, 20, 50)
        \o Batches(19, 22, 3, FALSE, 15, 20, 4, 200) \o Batches(19, 22, 3, TRUE, 8, 60, 20, 50)
        \o Batches(19, 22, 10, TRUE, 7, 60, 20, 50)
        \o Batches(23, 23, 3, FALSE, 15, 60, 20, 50) \o Batches(23, 23, 3, TRUE, 15, 90, 20, 50)

\* 120 measurements of four hours
ShiftedMeasurements ==
    Batches(8, 11, 3, FALSE, 20, 80, 20, 50) \o Batches(8, 11, 3, TRUE, 10, 90, 20, 50)

\* 30 measurements of the last week, all with the optimization active, and
\* 100 older ones
SparseMeasurements ==
    Batches(8, 8, 2, TRUE, 30, 90, 20, 50) \o Batches(9, 12, 20, FALSE, 25, 80, 20, 50)

\* 100 measurements of four throttled hours, the optimized ones with a
\* performance score between 0.5 and 0.8
ThrottledMeasurements ==
    Batches(19, 22, 2, FALSE, 15, 20, 4, 200) \o Batches(19, 22, 2, TRUE, 10, 60, 20, 50)

\* 120 measurements of all hours, with two optimized ones to an hour
ScatteredMeasurements ==
    Batches(0, 23, 2, FALSE, 3, 20, 4, 200) \o Batches(0, 23, 2, TRUE, 2, 90, 20, 50)

Stores == {<< >>, FewMeasurements, BasicMeasurements, ComprehensiveMeasurements,
           ShiftedMeasurements, SparseMeasurements}

\* the stores that tell the ways of learning the parameters of an ISP apart
IspStores == {FewMeasurements, BasicMeasurements, ShiftedMeasurements,
              ThrottledMeasurements, ScatteredMeasurements}

Profiles == {"none", "Hutch", "Fibernet"}

LearningDays == {0, 7}

\* Repository::get_speed_measurements_since
MeasurementsSince(days) == SelectSeq(store, LAMBDA m : m.age <= days)

\* measurements.len()
Count(ms) == SumSeq([i \in 1..Len(ms) |-> ms[i].n])

Optimized(ms) == SelectSeq(ms, LAMBDA m : m.optimization_active)

BaselineOf(ms) == SelectSeq(ms, LAMBDA m : ~m.optimization_active)

AtHours(ms, hours) == SelectSeq(ms, LAMBDA m : m.hour \in hours)

OnWeekday(ms, weekday) == SelectSeq(ms, LAMBDA m : m.weekday = weekday)

\* sum of download_mbps over the measurements
SumMbps(ms) == SumSeq([i \in 1..Len(ms) |-> ms[i].n * ms[i].download_mbps])

\* sum of performance_score over the measurements, in hundredths
SumScores(ms) == SumSeq([i \in 1..Len(ms) |-> ms[i].n * PerformanceScore(ms[i])])

SumSquares(ms) ==
    SumSeq([i \in 1..Len(ms) |-> ms[i].n * PerformanceScore(ms[i]) * PerformanceScore(ms[i])])

\* HashMap::insert of every entry of new into map
Insert(map, new) ==
    [k \in (DOMAIN map) \cup (DOMAIN new) |-> IF k \in DOMAIN new THEN new[k] ELSE map[k]]

\* StrategyEffectiveness::default
DefaultStrategyEffectiveness ==
    [avg_improvement |-> Ratio(1, 1), sample_count |-> 0, success_rate |-> Ratio(0, 1),
     confidence |-> 0, trend |-> Ratio(0, 1)]

\* PatternLearningModel::default; last_updated counts the training passes
\* that wrote it
DefaultModel ==
    [strategy_effectiveness |-> << >>, temporal_weights |-> << >>,
     weekly_weights |-> << >>, isp_parameters |-> << >>,
     model_confidence |-> 0, training_samples |-> 0, last_updated |-> 0]

\* mean * 1/(1 + variance) of the scores (intelligence.rs 587-593)
StatisticalWeight(ms) ==
    LET len == Count(ms)
        sum == SumScores(ms)
    IN  Ratio(sum * 100 * len, 10000 * len * len + len * SumSquares(ms) - sum * sum)

\* scores.iter().sum() / scores.len() (intelligence.rs 802, 809)
AverageScore(ms) == Ratio(SumScores(ms), 100 * Count(ms))

\* the keys of a grouping whose groups hold at least least entries
HoursWith(ms, least) == {h \in 0..23 : Count(AtHours(ms, {h})) >= least}

WeekdaysWith(ms, least) ==
    {Weekdays[d] : d \in {d \in 1..7 : Count(OnWeekday(ms, Weekdays[d])) >= least}}

LearnTemporalPatternsAdvanced(model, ms) ==
    [model EXCEPT
        !.temporal_weights =
            Insert(@, [h \in HoursWith(ms, 5) |-> StatisticalWeight(AtHours(ms, {h}))]),
        !.weekly_weights =
            Insert(@, [d \in WeekdaysWith(ms, 5) |-> StatisticalWeight(OnWeekday(ms, d))])]

\* learn_isp_patterns without the effectiveness of the optimized measurements
LearnIspPatterns_IgnoresEffectiveness(model, ms) ==
    LET known == IsKnownThrottlingIsp(isp_profile)
        params ==
            [optimal_stealth_level |-> IF known THEN "High" ELSE "Medium",
             optimal_rotation_interval |-> 10,
             optimal_traffic_intensity |-> 5,
             detection_risk |-> IF known THEN 6 ELSE 3,
             confidence |-> Confidence(1000)]
    IN  IF isp_profile # "none" /\ Count(Optimized(ms)) >= 20
        THEN [model EXCEPT !.isp_parameters = Insert(@, [k \in {isp_profile} |-> params])]
        ELSE model

LearnIspPatterns(model, ms) ==
    LET optimized_measurements == Optimized(ms)
        scored == AtHours(optimized_measurements, HoursWith(optimized_measurements, 3))
        total_samples == Count(scored)
        \* avg_effectiveness is SumScores(scored) / total_samples, or 0.0
        above_08 == total_samples > 0 /\ SumScores(scored) > 80 * total_samples
        below_05 == total_samples = 0 \/ SumScores(scored) < 50 * total_samples
        known == IsKnownThrottlingIsp(isp_profile)
        detection_risk == IF below_05 THEN 9 ELSE IF known THEN 6 ELSE 3
        params ==
            [optimal_stealth_level |->
                 IF known THEN (IF above_08 THEN "High" ELSE "Maximum") ELSE "Medium",
             optimal_rotation_interval |-> IF detection_risk > 7 THEN 5 ELSE 10,
             optimal_traffic_intensity |-> IF detection_risk > 7 THEN 3 ELSE 5,
             detection_risk |-> detection_risk,
             confidence |-> Min(1200 * total_samples, Confidence(1000))]
    IN  IF isp_profile # "none" /\ Count(optimized_measurements) >= 20
        THEN [model EXCEPT !.isp_parameters = Insert(@, [k \in {isp_profile} |-> params])]
        ELSE model

\* improvement = avg_optimized / avg_baseline, or 1.0 without a baseline
Improvement(optimized, baseline) ==
    IF SumMbps(baseline) > 0
    THEN Ratio(SumMbps(optimized) * Count(baseline), SumMbps(baseline) * Count(optimized))
    ELSE Ratio(1, 1)

CalculateEffectivenessConfidence(optimized_samples, baseline_samples, improvement) ==
    LET sample_confidence == Min(optimized_samples + baseline_samples, 100) * 600
        improvement_confidence ==
            IF 2 * improvement.num > 3 * improvement.den THEN Confidence(1000)
            ELSE IF 5 * improvement.num > 6 * improvement.den THEN Confidence(800)
            ELSE Confidence(500)
    IN  Min((sample_confidence * 6) \div 10 + (improvement_confidence * 4) \div 10,
            Confidence(1000))

\* improvement - 1.0 clamped to [0, 1], or 1.0 above 1.2
SuccessRate(improvement) ==
    IF 5 * improvement.num > 6 * improvement.den THEN Ratio(1, 1)
    ELSE IF improvement.num > improvement.den
         THEN Ratio(improvement.num - improvement.den, improvement.den)
         ELSE Ratio(0, 1)

\* (recent_avg - older_avg) / older_avg of the optimized measurements
Trend(optimized) ==
    LET recent == SelectSeq(optimized, LAMBDA m : m.age < 7)
        older == SelectSeq(optimized, LAMBDA m : m.age >= 7)
    IN  IF Len(recent) > 0 /\ Len(older) > 0 /\ SumMbps(older) > 0
        THEN Ratio(SumMbps(recent) * Count(older) - SumMbps(older) * Count(recent),
                   SumMbps(older) * Count(recent))
        ELSE Ratio(0, 1)

LearnEffectivenessPatterns(model, ms) ==
    LET optimized == Optimized(ms)
        baseline == BaselineOf(ms)
        improvement == Improvement(optimized, baseline)
        effectiveness ==
            [avg_improvement |-> improvement,
             sample_count |-> Count(optimized),
             success_rate |-> SuccessRate(improvement),
             confidence |-> CalculateEffectivenessConfidence(
                                Count(optimized), Count(baseline), improvement),
             trend |-> Trend(optimized)]
    IN  IF Count(optimized) >= 10 /\ Count(baseline) >= 10
        THEN [model EXCEPT
                 !.strategy_effectiveness = Insert(@, [k \in {"Default"} |-> effectiveness])]
        ELSE model

\* calculate_model_confidence
CalculateModelConfidence(model) ==
    LET strategies == DOMAIN model.strategy_effectiveness
        names == CHOOSE s \in [1..Cardinality(strategies) -> strategies] :
                     \A n \in strategies : \E i \in DOMAIN s : s[i] = n
        data_confidence == Min(model.training_samples, 1000) * 60
        strategy_confidence ==
            SumSeq([i \in DOMAIN names |-> model.strategy_effectiveness[names[i]].confidence])
                \div Max(Cardinality(strategies), 1)
        temporal_confidence ==
            IF Cardinality(DOMAIN model.temporal_weights) >= 12
            THEN Confidence(800) ELSE Confidence(400)
    IN  [model EXCEPT !.model_confidence =
            Min((data_confidence * 3) \div 10 + (strategy_confidence * 4) \div 10
                    + (temporal_confidence * 3) \div 10,
                Confidence(1000))]

\* the calls of the Repository that can fail during a training pass
Failures == {"none", "train_read", "advanced_read", "isp_patterns_profile",
             "strategy_read", "isp_parameters_profile"}

\* learn_advanced_patterns: the model it leaves and whether it returned Ok
LearnAdvancedPatterns(model, fail) ==
    LET measurements == MeasurementsSince(60)
        temporal == LearnTemporalPatternsAdvanced(model, measurements)
    IN  IF fail = "advanced_read" THEN [ok |-> FALSE, model |-> model]
        ELSE IF Count(measurements) < 100 THEN [ok |-> TRUE, model |-> model]
        ELSE IF fail = "isp_patterns_profile" THEN [ok |-> FALSE, model |-> temporal]
        ELSE [ok |-> TRUE,
              model |-> CalculateModelConfidence(
                            LearnEffectivenessPatterns(
                                LearnIspPatterns(temporal, measurements), measurements))]

\* update_temporal_patterns
UpdateTemporalPatterns(model, ms) ==
    [model EXCEPT
        !.temporal_weights =
            Insert(@, [h \in HoursWith(ms, 3) |-> AverageScore(AtHours(ms, {h}))]),
        !.weekly_weights =
            Insert(@, [d \in WeekdaysWith(ms, 3) |-> AverageScore(OnWeekday(ms, d))])]

\* calculate_strategy_effectiveness
CalculateStrategyEffectiveness ==
    LET measurements == MeasurementsSince(14)
        optimized == Optimized(measurements)
        baseline == BaselineOf(measurements)
        improvement == Improvement(optimized, baseline)
    IN  IF Count(optimized) < 5 \/ Count(baseline) < 5
        THEN DefaultStrategyEffectiveness
        ELSE [avg_improvement |-> improvement,
              sample_count |-> Count(optimized),
              success_rate |-> SuccessRate(improvement),
              confidence |-> CalculateEffectivenessConfidence(
                                 Count(optimized), Count(baseline), improvement),
              trend |-> Ratio(0, 1)]

\* update_strategy_effectiveness
UpdateStrategyEffectiveness(model) ==
    [model EXCEPT !.strategy_effectiveness =
        Insert(@, [k \in {"Default", "High Stealth"} |-> CalculateStrategyEffectiveness])]

\* update_isp_parameters
UpdateIspParameters(model) ==
    LET known == IsKnownThrottlingIsp(isp_profile)
        params ==
            [optimal_stealth_level |-> IF known THEN "High" ELSE "Medium",
             optimal_rotation_interval |-> 10,
             optimal_traffic_intensity |-> 5,
             detection_risk |-> IF known THEN 7 ELSE 3,
             confidence |-> Confidence(600)]
    IN  IF isp_profile # "none"
        THEN [model EXCEPT !.isp_parameters = Insert(@, [k \in {isp_profile} |-> params])]
        ELSE model

TooFewToTrain_Never(samples) == FALSE

\* measurements.len() < 50 (intelligence.rs 754)
TooFewToTrain(samples) == samples < 50

\* the last lines of train_model (intelligence.rs 775-781)
FinishTraining(model, samples) ==
    [CalculateModelConfidence(model) EXCEPT
        !.training_samples = samples, !.last_updated = @ + 1]

\* train_model on the model: what it returns, the model it leaves and the
\* number of measurements it read
TrainModelOn(model, fail) ==
    LET measurements == MeasurementsSince(30)
        samples == Count(measurements)
        advanced == LearnAdvancedPatterns(model, fail)
        temporal == IF DOMAIN advanced.model.temporal_weights = {}
                    THEN UpdateTemporalPatterns(advanced.model, measurements)
                    ELSE advanced.model
        no_strategy == DOMAIN temporal.strategy_effectiveness = {}
        strategy == IF no_strategy THEN UpdateStrategyEffectiveness(temporal) ELSE temporal
        no_isp == DOMAIN strategy.isp_parameters = {}
        isp == IF no_isp THEN UpdateIspParameters(strategy) ELSE strategy
        Return(result, m) == [result |-> result, model |-> m, samples |-> samples]
    IN  IF fail = "train_read" THEN [result |-> "Err", model |-> model, samples |-> 0]
        ELSE IF TooFewToTrain(samples) THEN Return("Ok", model)
        ELSE IF ~advanced.ok THEN Return("Err", advanced.model)
        ELSE IF no_strategy /\ fail = "strategy_read" THEN Return("Err", temporal)
        ELSE IF no_isp /\ fail = "isp_parameters_profile" THEN Return("Err", strategy)
        ELSE Return("Ok", FinishTraining(isp, samples))

TooFewToAnalyze_Never(samples) == FALSE

\* measurements.len() < 20 (intelligence.rs 1061)
TooFewToAnalyze(samples) == samples < 20

\* PatternAnalysis of analyze_patterns below its 20 measurements
NoAnalysis ==
    [throttling_periods |-> {}, baseline_speed |-> Ratio(0, 1), confidence_level |-> 0,
     data_collection_days |-> 0, isp_profile |-> "none"]

\* analyze_patterns
AnalyzePatternsOf(model) ==
    LET measurements == MeasurementsSince(min_learning_days)
        baseline_measurements == BaselineOf(measurements)
    IN  IF TooFewToAnalyze(Count(measurements)) THEN NoAnalysis
        ELSE [throttling_periods |->
                  {h \in DOMAIN model.temporal_weights :
                      5 * model.temporal_weights[h].num < 3 * model.temporal_weights[h].den},
              baseline_speed |->
                  IF Len(baseline_measurements) > 0
                  THEN Ratio(SumMbps(baseline_measurements), Count(baseline_measurements))
                  ELSE Ratio(0, 1),
              confidence_level |-> model.model_confidence,
              data_collection_days |-> Count(measurements) \div 24,
              isp_profile |-> isp_profile]

\* values().map(|s| s.avg_improvement).fold(1.0, f64::max)
MaxImprovement(model) ==
    LET values == {Ratio(1, 1)} \cup
            {model.strategy_effectiveness[k].avg_improvement :
                k \in DOMAIN model.strategy_effectiveness}
    IN  CHOOSE r \in values : \A q \in values : ~RatioLess(r, q)

NoDecision ==
    [should_activate |-> FALSE, reason |-> "", confidence |-> 0,
     estimated_improvement |-> [some |-> FALSE, value |-> Ratio(1, 1)]]

ShouldActivate_IgnoresConfidence(analysis) ==
    /\ analysis.baseline_speed.num > 0
    /\ analysis.throttling_periods # {}

\* the decision logic of should_optimize (intelligence.rs 1115-1117)
ShouldActivate(analysis) ==
    /\ analysis.confidence_level > Confidence(600)
    /\ analysis.baseline_speed.num > 0
    /\ analysis.throttling_periods # {}

\* should_optimize, given the analysis analyze_patterns returned
ShouldOptimizeOf(model, analysis) ==
    LET should_activate == ShouldActivate(analysis)
    IN  [should_activate |-> should_activate,
         reason |->
             IF should_activate
             THEN "Throttling patterns detected with sufficient confidence"
             ELSE IF analysis.confidence_level <= Confidence(600)
                  THEN "Insufficient data confidence for optimization"
                  ELSE "No significant throttling patterns detected",
         confidence |-> analysis.confidence_level,
         estimated_improvement |->
             IF should_activate
             THEN [some |-> TRUE, value |-> MaxImprovement(model)]
             ELSE [some |-> FALSE, value |-> Ratio(1, 1)]]

NoStatus ==
    [state |-> "Inactive", progress |-> FALSE, days_collected |-> 0, days_needed |-> 0,
     effectiveness |-> FALSE, improvement_factor |-> Ratio(1, 1)]

GetStatusOf_NeverLearning(model, analysis) ==
    IF analysis.confidence_level > Confidence(600)
    THEN [NoStatus EXCEPT !.state = "Optimizing", !.effectiveness = TRUE,
                          !.improvement_factor = MaxImprovement(model)]
    ELSE [NoStatus EXCEPT !.state = "Monitoring"]

\* get_status, given the analysis analyze_patterns returned
GetStatusOf(model, analysis) ==
    IF analysis.data_collection_days < min_learning_days
    THEN [NoStatus EXCEPT !.state = "Learning", !.progress = TRUE,
                          !.days_collected = analysis.data_collection_days,
                          !.days_needed = min_learning_days]
    ELSE IF analysis.confidence_level > Confidence(600)
         THEN [NoStatus EXCEPT !.state = "Optimizing", !.effectiveness = TRUE,
                               !.improvement_factor = MaxImprovement(model)]
         ELSE [NoStatus EXCEPT !.state = "Monitoring"]

NoOp ==
    [op |-> "none", result |-> "Ok", samples |-> 0, analysis |-> NoAnalysis,
     decision |-> NoDecision, status |-> NoStatus]

\* DecisionEngine::new and the task that main spawns for run()
InitDecisionEngine ==
    decision_engine =
        [pc |-> "cleanup", cycles |-> 0, failed |-> {}, warnings |-> {}, info |-> "none"]

\* BackgroundMonitor::new
InitMonitor ==
    monitor = [is_running |-> FALSE, shutdown_tx |-> 0, tasks |-> << >>,
               measured |-> 0, last_call |-> "none"]

\* no task is inside the StealthEngine and no lock is held
InitLocks ==
    /\ task_pc = [t \in {"cycle", "stats", "dpi"} |-> "idle"]
    /\ rwlocks = [l \in {"active_connections", "rotation_state", "adaptive_state"} |-> {}]

InitTasks == InitDecisionEngine /\ InitMonitor /\ InitLocks

InitLearning ==
    /\ store = << >>
    /\ isp_profile = "none"
    /\ learning_model = DefaultModel
    /\ min_learning_days = 7
    /\ last_op = NoOp

\* DefaultIntelligenceCore::train_model, with the call of the Repository
\* that fails in this pass
Train(fail) ==
    LET trained == TrainModelOn(learning_model, fail)
    IN  /\ learning_model.last_updated < MaxTrainings
        /\ learning_model' = trained.model
        /\ last_op' = [NoOp EXCEPT !.op = "train", !.result = trained.result,
                                   !.samples = trained.samples]
        /\ UNCHANGED <<store, isp_profile, min_learning_days>>
        /\ UNCHANGED <<stealthVars, keeperVars, engineVars, taskVars>>

\* a training pass over a store that answers every call
TrainModel == Train("none")

\* a training pass over a store that fails
TrainModelFails == \E fail \in Failures \ {"none"} : Train(fail)

\* IntelligenceCore::analyze_patterns
AnalyzePatterns ==
    /\ last_op' = [NoOp EXCEPT !.op = "analyze",
                               !.samples = Count(MeasurementsSince(min_learning_days)),
                               !.analysis = AnalyzePatternsOf(learning_model)]
    /\ UNCHANGED <<store, isp_profile, learning_model, min_learning_days>>
    /\ UNCHANGED <<stealthVars, keeperVars, engineVars, taskVars>>

\* IntelligenceCore::should_optimize
ShouldOptimize ==
    LET analysis == AnalyzePatternsOf(learning_model)
    IN  /\ last_op' = [NoOp EXCEPT !.op = "decide",
                                   !.samples = Count(MeasurementsSince(min_learning_days)),
                                   !.analysis = analysis,
                                   !.decision = ShouldOptimizeOf(learning_model, analysis)]
        /\ UNCHANGED <<store, isp_profile, learning_model, min_learning_days>>
        /\ UNCHANGED <<stealthVars, keeperVars, engineVars, taskVars>>

\* IntelligenceCore::get_status
GetStatus ==
    LET analysis == AnalyzePatternsOf(learning_model)
    IN  /\ last_op' = [NoOp EXCEPT !.op = "status",
                                   !.samples = Count(MeasurementsSince(min_learning_days)),
                                   !.analysis = analysis,
                                   !.status = GetStatusOf(learning_model, analysis)]
        /\ UNCHANGED <<store, isp_profile, learning_model, min_learning_days>>
        /\ UNCHANGED <<stealthVars, keeperVars, engineVars, taskVars>>

\* DefaultIntelligenceCore::set_min_learning_days
SetMinLearningDays ==
    \E days \in LearningDays :
        /\ min_learning_days' = days
        /\ last_op' = [NoOp EXCEPT !.op = "set_min_learning_days"]
        /\ UNCHANGED <<store, isp_profile, learning_model>>
        /\ UNCHANGED <<stealthVars, keeperVars, engineVars, taskVars>>

\* the measurements and the ISP profile that the monitor has saved and the
\* clean-up has left (repository.rs 17-33, 66-80, 212-221)
StoreChanges ==
    \E measurements \in Stores, profile \in Profiles :
        /\ store' = measurements
        /\ isp_profile' = profile
        /\ last_op' = [NoOp EXCEPT !.op = "store"]
        /\ UNCHANGED <<learning_model, min_learning_days>>
        /\ UNCHANGED <<stealthVars, keeperVars, engineVars, taskVars>>

\* the store with measurements of high, middling and no effectiveness
IspStoreChanges ==
    \E measurements \in IspStores, profile \in Profiles :
        /\ store' = measurements
        /\ isp_profile' = profile
        /\ last_op' = [NoOp EXCEPT !.op = "store"]
        /\ UNCHANGED <<learning_model, min_learning_days>>
        /\ UNCHANGED <<stealthVars, keeperVars, engineVars, taskVars>>

IspLearningNext ==
    \/ TrainModel
    \/ IspStoreChanges

LearningNext ==
    \/ TrainModel
    \/ AnalyzePatterns
    \/ ShouldOptimize
    \/ GetStatus
    \/ SetMinLearningDays
    \/ StoreChanges

(***************************************************************************)
(* Decision Loop (intelligence.rs 1200-1254): DecisionEngine::run          *)
(***************************************************************************)

\* Repository::cleanup_old_data: DELETE ... WHERE timestamp < cutoff
CleanupOldData(measurements, days_to_keep) ==
    SelectSeq(measurements, LAMBDA m : m.age <= days_to_keep)

\* 60 measurements of the last days and 40 that are older than 30 days
AgedMeasurements ==
    BasicMeasurements \o Batches(19, 22, 40, FALSE, 10, 20, 4, 200)

\* what the store holds while the loop runs
DecisionStores == {BasicMeasurements, AgedMeasurements, ComprehensiveMeasurements}

StepResults == {"Ok", "Err"}

\* a run() that hands the error of a step to its caller with `?`
StepAfter_Propagates(step, result) ==
    IF result = "Err" THEN "returned"
    ELSE CASE step = "cleanup" -> "train"
           [] step = "train" -> "decide"
           [] step = "decide" -> "sleep"
           [] step = "sleep" -> "cleanup"

\* the step that run() takes after a step has returned: `let _ =` for the
\* clean-up, `if let Err(e)` for the training and a match for the decision
StepAfter(step, result) ==
    CASE step = "cleanup" -> "train"
      [] step = "train" -> "decide"
      [] step = "decide" -> "sleep"
      [] step = "sleep" -> "cleanup"

\* the warnings that run() logs for the result of a step
WarningsOf(step, result) ==
    IF step = "train" /\ result = "Err" THEN {"Model training failed"}
    ELSE IF step = "decide" /\ result = "Err" THEN {"Decision evaluation failed"}
    ELSE {}

\* a loop that switches the optimization as it has decided
FlagAfterDecision_Applied(mode, decision) ==
    IF decision.should_activate THEN "Enabled" ELSE "Disabled"

\* the optimization mode after run() has evaluated a decision: the decision
\* is logged and dropped, the engine holds no handle to the shared state
FlagAfterDecision(mode, decision) == mode

\* let _ = self.repository.cleanup_old_data(30).await;
DecisionCleanup ==
    /\ decision_engine.pc = "cleanup"
    /\ \E result \in StepResults :
         /\ store' = IF result = "Ok" THEN CleanupOldData(store, 30) ELSE store
         /\ decision_engine' =
                [decision_engine EXCEPT !.pc = StepAfter("cleanup", result),
                                        !.failed = IF result = "Err" THEN {"cleanup"} ELSE {},
                                        !.warnings = WarningsOf("cleanup", result),
                                        !.info = "none"]
    /\ last_op' = [NoOp EXCEPT !.op = "store"]
    /\ UNCHANGED <<isp_profile, learning_model, min_learning_days>>
    /\ UNCHANGED <<stealthVars, keeperVars, engineVars>>
    /\ UNCHANGED <<monitor, lockVars>>

\* if let Err(e) = self.intelligence.train_model().await { warn }
DecisionTrain ==
    /\ decision_engine.pc = "train"
    /\ \E fail \in Failures :
         \E trained \in {TrainModelOn(learning_model, fail)} :
             /\ learning_model' = trained.model
             /\ last_op' = [NoOp EXCEPT !.op = "train", !.result = trained.result,
                                        !.samples = trained.samples]
             /\ decision_engine' =
                    [decision_engine EXCEPT
                        !.pc = StepAfter("train", trained.result),
                        !.failed = IF trained.result = "Err" THEN @ \cup {"train"} ELSE @,
                        !.warnings = @ \cup WarningsOf("train", trained.result)]
    /\ UNCHANGED <<store, isp_profile, min_learning_days>>
    /\ UNCHANGED <<stealthVars, keeperVars, engineVars>>
    /\ UNCHANGED <<monitor, lockVars>>

\* match self.intelligence.should_optimize().await { Ok => info, Err => warn }
DecisionDecide ==
    /\ decision_engine.pc = "decide"
    /\ \E result \in StepResults :
         LET analysis == AnalyzePatternsOf(learning_model)
             decision == IF result = "Ok" THEN ShouldOptimizeOf(learning_model, analysis)
                         ELSE NoDecision
         IN  /\ last_op' = [NoOp EXCEPT !.op = "decide", !.result = result,
                                !.samples = Count(MeasurementsSince(min_learning_days)),
                                !.analysis = IF result = "Ok" THEN analysis ELSE NoAnalysis,
                                !.decision = decision]
             /\ decision_engine' =
                    [decision_engine EXCEPT
                        !.pc = StepAfter("decide", result),
                        !.failed = IF result = "Err" THEN @ \cup {"decide"} ELSE @,
                        !.warnings = @ \cup WarningsOf("decide", result),
                        !.info = IF result = "Err" THEN "none"
                                 ELSE IF decision.should_activate THEN "activate"
                                 ELSE "stay"]
             /\ optimization_mode' =
                    IF result = "Ok" THEN FlagAfterDecision(optimization_mode, decision)
                    ELSE optimization_mode
    /\ UNCHANGED <<store, isp_profile, learning_model, min_learning_days>>
    /\ UNCHANGED <<config, is_running, hourly_budget_used_kb, since_last_reset, spawned,
                   loop_alive, keeper_loops, loopLocals>>
    /\ UNCHANGED <<stealthVars, engineVars>>
    /\ UNCHANGED <<monitor, lockVars>>

\* sleep(min_training_interval_minutes * 60) and the next turn of the loop
DecisionSleep ==
    /\ decision_engine.pc = "sleep"
    /\ decision_engine.cycles + 1 < MaxTrainings
    /\ decision_engine' =
           [decision_engine EXCEPT !.pc = StepAfter("sleep", "Ok"), !.cycles = @ + 1]
    /\ UNCHANGED learningVars
    /\ UNCHANGED <<stealthVars, keeperVars, engineVars>>
    /\ UNCHANGED <<monitor, lockVars>>

\* the measurements and the ISP profile that the monitor saves meanwhile
DecisionStoreChanges ==
    \E measurements \in DecisionStores, profile \in {"Hutch"} :
        /\ store' = measurements
        /\ isp_profile' = profile
        /\ last_op' = [NoOp EXCEPT !.op = "store"]
        /\ UNCHANGED <<learning_model, min_learning_days>>
        /\ UNCHANGED <<stealthVars, keeperVars, engineVars, taskVars>>

\* the Decision Loop beside the requests that switch the optimization and
\* the run_loop tasks they spawn
DecisionLoopNext ==
    \/ DecisionCleanup
    \/ DecisionTrain
    \/ DecisionDecide
    \/ DecisionSleep
    \/ DecisionStoreChanges
    \/ ToggleOptimization
    \/ StartOptimization
    \/ StopOptimization
    \/ RunLoopEnter
    \/ RunLoopExit

(***************************************************************************)
(* Background Monitor (monitor.rs 103-225)                                 *)
(***************************************************************************)

\* the Sender of a channel is dropped: a task that listens on it and has no
\* message waiting finds the channel closed
DropSender(tasks, tx) ==
    IF tx # 0 /\ tasks[tx].signal = "open"
    THEN [tasks EXCEPT ![tx].signal = "closed"]
    ELSE tasks

\* tx.send(()).await on the channel of a task: an error (the Receiver is
\* gone with its task) is ignored
SendShutdown(tasks, tx) ==
    IF tx # 0 /\ tasks[tx].pc # "done"
    THEN [tasks EXCEPT ![tx].signal = "sent"]
    ELSE tasks

\* BackgroundMonitor::start_monitoring
StartMonitoring ==
    IF monitor.is_running
    THEN monitor' = [monitor EXCEPT !.last_call = "start"]
    ELSE /\ Len(monitor.tasks) < MaxMonitorTasks
         /\ monitor' =
                [monitor EXCEPT
                    !.is_running = TRUE,
                    !.shutdown_tx = Len(monitor.tasks) + 1,
                    !.tasks = Append(DropSender(monitor.tasks, monitor.shutdown_tx),
                                     [pc |-> "init", signal |-> "open"]),
                    !.last_call = "start"]

\* BackgroundMonitor::stop_monitoring
StopMonitoring ==
    IF ~monitor.is_running
    THEN monitor' = [monitor EXCEPT !.last_call = "stop"]
    ELSE monitor' =
             [monitor EXCEPT
                 !.is_running = FALSE,
                 !.shutdown_tx = 0,
                 !.tasks = SendShutdown(monitor.tasks, monitor.shutdown_tx),
                 !.last_call = "stop"]

\* the spawned task initializes the interface baseline: on an error it
\* returns and leaves is_running as it is
MonitorTaskInit(i) ==
    /\ monitor.tasks[i].pc = "init"
    /\ \E ok \in BOOLEAN :
         monitor' = [monitor EXCEPT !.tasks[i].pc = IF ok THEN "loop" ELSE "done"]

\* the interval.tick() branch of the select!: the task leaves the loop and
\* clears is_running when it reads is_running as false, and measures
\* otherwise
MonitorTaskTick(i) ==
    /\ monitor.tasks[i].pc = "loop"
    /\ IF ~monitor.is_running
       THEN monitor' = [monitor EXCEPT !.tasks[i].pc = "done", !.is_running = FALSE]
       ELSE /\ monitor.measured < MaxMeasured
            /\ monitor' = [monitor EXCEPT !.measured = @ + 1]

\* the shutdown_rx.recv() branch of the select!: a message or a closed
\* channel ends the loop, and the task clears is_running
MonitorTaskShutdown(i) ==
    /\ monitor.tasks[i].pc = "loop"
    /\ monitor.tasks[i].signal \in {"sent", "closed"}
    /\ monitor' = [monitor EXCEPT !.tasks[i].pc = "done", !.is_running = FALSE]

MonitorCalls ==
    /\ StartMonitoring \/ StopMonitoring
    /\ UNCHANGED <<stealthVars, keeperVars, engineVars, learningVars, decision_engine,
                   lockVars>>

MonitorTaskSteps ==
    /\ \E i \in 1..Len(monitor.tasks) :
         \/ MonitorTaskInit(i)
         \/ MonitorTaskTick(i)
         \/ MonitorTaskShutdown(i)
    /\ UNCHANGED <<stealthVars, keeperVars, engineVars, learningVars, decision_engine,
                   lockVars>>

MonitorNext ==
    \/ MonitorCalls
    \/ MonitorTaskSteps

(***************************************************************************)
(* The RwLocks of the StealthEngine (stealth.rs 83-92) under a stealth     *)
(* cycle and a status query.  A read guard is granted while no task holds  *)
(* the write guard, a write guard while no task holds any guard.           *)
(***************************************************************************)

CanRead(lock) == \A holder \in rwlocks[lock] : holder[2] = "read"

CanWrite(lock) == rwlocks[lock] = {}

\* the lock that a task takes in its next step
Wanted ==
    [should_rotate |-> <<"rotation_state", "read">>,
     rotate_servers |-> <<"rotation_state", "write">>,
     rotate_cleanup |-> <<"active_connections", "write">>,
     current_server |-> <<"rotation_state", "read">>,
     assess_risk |-> <<"adaptive_state", "read">>,
     adapt_state |-> <<"adaptive_state", "write">>,
     adapt_rotation |-> <<"rotation_state", "write">>,
     update_stats |-> <<"active_connections", "write">>,
     record_result |-> <<"adaptive_state", "write">>,
     keep_alive |-> <<"active_connections", "read">>,
     ping_update |-> <<"active_connections", "write">>,
     stats_connections |-> <<"active_connections", "read">>,
     stats_rotation |-> <<"rotation_state", "read">>,
     stats_dpi |-> <<"adaptive_state", "read">>]

\* the lock of the next step of the task is free for it
Granted(task) ==
    /\ task_pc[task] \in DOMAIN Wanted
    /\ LET want == Wanted[task_pc[task]]
       IN  IF want[2] = "read" THEN CanRead(want[1]) ELSE CanWrite(want[1])

\* the task takes the guard of its next step and keeps it
Hold(task) ==
    LET want == Wanted[task_pc[task]]
    IN  [rwlocks EXCEPT ![want[1]] = @ \cup {<<task, want[2]>>}]

\* every guard of the task is dropped
Release(task, locks) ==
    [l \in DOMAIN locks |-> {holder \in locks[l] : holder[1] # task}]

Goto(task, pc) == task_pc' = [task_pc EXCEPT ![task] = pc]

\* what a step of the two tasks leaves alone
LockFrame ==
    /\ UNCHANGED <<stealthVars, keeperVars, learningVars, decision_engine, monitor>>
    /\ UNCHANGED <<stealth_level, server_pool, is_active, rotationVars, stealth_loops,
                   last_call, last_cycle>>

\* execute_stealth_cycle is called
CycleBegin ==
    /\ task_pc["cycle"] = "idle"
    /\ Goto("cycle", "should_rotate")
    /\ UNCHANGED <<rwlocks, active_connections>>
    /\ LockFrame

\* should_rotate_servers: the read guard is dropped when it returns
CycleShouldRotate ==
    /\ task_pc["cycle"] = "should_rotate"
    /\ Granted("cycle")
    /\ \E due \in BOOLEAN :
         Goto("cycle", IF due THEN "rotate_servers" ELSE "current_server")
    /\ UNCHANGED <<rwlocks, active_connections>>
    /\ LockFrame

\* rotate_servers: the write guard of the rotation state is dropped before
\* the connection of the old server is removed under the write guard of the
\* connections
CycleRotateServers ==
    /\ Granted("cycle")
    /\ \/ /\ task_pc["cycle"] = "rotate_servers"
          /\ Goto("cycle", "rotate_cleanup")
          /\ UNCHANGED active_connections
       \/ /\ task_pc["cycle"] = "rotate_cleanup"
          /\ Goto("cycle", "current_server")
          /\ active_connections' = {}
    /\ UNCHANGED rwlocks
    /\ LockFrame

\* adapt_stealth_strategy: assess_detection_risk under a read guard, then
\* the write guard of the adaptive state, which is held to the end, and
\* with a Medium or High risk the write guard of the rotation state
CycleAdaptStealthStrategy ==
    /\ \/ /\ task_pc["cycle"] = "assess_risk"
          /\ Granted("cycle")
          /\ Goto("cycle", "adapt_state")
          /\ UNCHANGED rwlocks
       \/ /\ task_pc["cycle"] = "adapt_state"
          /\ Granted("cycle")
          /\ \E current_risk \in {"Low", "Medium", "High", "Critical"} :
               IF current_risk \in {"Medium", "High"}
               THEN /\ Goto("cycle", "adapt_rotation")
                    /\ rwlocks' = Hold("cycle")
               ELSE /\ Goto("cycle", "update_stats")
                    /\ UNCHANGED rwlocks
       \/ /\ task_pc["cycle"] = "adapt_rotation"
          /\ Granted("cycle")
          /\ Goto("cycle", "update_stats")
          /\ rwlocks' = Release("cycle", rwlocks)
    /\ UNCHANGED active_connections
    /\ LockFrame

\* generate_mimicry_traffic: the current server is read and the guard
\* dropped, the strategy is adapted, the requests that succeed update the
\* statistics of the connection, and the result is recorded
CycleGenerateMimicryTraffic ==
    /\ Granted("cycle")
    /\ \/ /\ task_pc["cycle"] = "current_server"
          /\ \E empty \in BOOLEAN :
               Goto("cycle", IF empty THEN "keep_alive" ELSE "assess_risk")
          /\ UNCHANGED active_connections
       \/ /\ task_pc["cycle"] = "update_stats"
          /\ Goto("cycle", "record_result")
          /\ \E seen \in BOOLEAN :
               active_connections' =
                   IF seen THEN active_connections \cup {"current"}
                   ELSE active_connections
       \/ /\ task_pc["cycle"] = "record_result"
          /\ Goto("cycle", "keep_alive")
          /\ UNCHANGED active_connections
    /\ UNCHANGED rwlocks
    /\ LockFrame

\* maintain_keep_alive_connections holds the read guard of the connections
\* over its loop; send_keep_alive_ping of a connection that is due calls
\* update_connection_stats when the ping is answered, which takes the write
\* guard of the connections
CycleMaintainKeepAlive ==
    /\ Granted("cycle")
    /\ \/ /\ task_pc["cycle"] = "keep_alive"
          /\ \E due_and_answered \in BOOLEAN :
               IF due_and_answered /\ active_connections # {}
               THEN /\ Goto("cycle", "ping_update")
                    /\ rwlocks' = Hold("cycle")
               ELSE /\ Goto("cycle", "idle")
                    /\ UNCHANGED rwlocks
       \/ /\ task_pc["cycle"] = "ping_update"
          /\ Goto("cycle", "idle")
          /\ rwlocks' = Release("cycle", rwlocks)
    /\ UNCHANGED active_connections
    /\ LockFrame

\* get_stealth_stats: the read guards of the connections and of the
\* rotation state are held while get_dpi_bypass_stats takes the read guard
\* of the adaptive state
GetStealthStatsTask ==
    /\ \/ /\ task_pc["stats"] = "idle"
          /\ Goto("stats", "stats_connections")
          /\ UNCHANGED rwlocks
       \/ /\ task_pc["stats"] = "stats_connections"
          /\ Granted("stats")
          /\ Goto("stats", "stats_rotation")
          /\ rwlocks' = Hold("stats")
       \/ /\ task_pc["stats"] = "stats_rotation"
          /\ Granted("stats")
          /\ Goto("stats", "stats_dpi")
          /\ rwlocks' = Hold("stats")
       \/ /\ task_pc["stats"] = "stats_dpi"
          /\ Granted("stats")
          /\ Goto("stats", "idle")
          /\ rwlocks' = Release("stats", rwlocks)
    /\ UNCHANGED active_connections
    /\ LockFrame

\* get_dpi_bypass_stats called by itself: the read guard of the adaptive
\* state is dropped when it returns
GetDpiBypassStatsTask ==
    /\ \/ /\ task_pc["dpi"] = "idle"
          /\ Goto("dpi", "stats_dpi")
       \/ /\ task_pc["dpi"] = "stats_dpi"
          /\ Granted("dpi")
          /\ Goto("dpi", "idle")
    /\ UNCHANGED <<rwlocks, active_connections>>
    /\ LockFrame

LockNext ==
    \/ CycleBegin
    \/ CycleShouldRotate
    \/ CycleRotateServers
    \/ CycleAdaptStealthStrategy
    \/ CycleGenerateMimicryTraffic
    \/ CycleMaintainKeepAlive
    \/ GetStealthStatsTask
    \/ GetDpiBypassStatsTask

(***************************************************************************)
(* Claims about the Throughput Keeper, checked under SpecKeeper            *)
(***************************************************************************)
\* the latest tick went past the suspension checks
ActiveTick(tick) == tick.path \in {"burst", "skip"}

\* the largest burst any configuration lets the keeper send
LargestBurstKb ==
    MaxOf(UNION {SeqRange(cfg.burst_sizes_kb) \cup {64} : cfg \in KeeperConfigs})

\* C1 as stated: a tick that ends Suspended invokes no burst and leaves
\* hourly_budget_used_mb and the remembered last burst size unchanged.
C1_SuspendedTickChangesNothing ==
    [][(RunLoopIteration /\ cadence' = "Suspended")
         => /\ last_tick'.attempts = 0
            /\ hourly_budget_used_kb' = hourly_budget_used_kb
            /\ last_burst_kb' = last_burst_kb]_vars

\* C1 amended: a tick with the shared flag Disabled or the keeper config
\* disabled ends Suspended; a tick that ends Suspended invokes no burst,
\* leaves the last burst size unchanged and never increases the budget
\* usage: the usage is unchanged, except that a tick suspended for budget
\* first applies the hourly reset (usage back to 0) when an hour has passed
\* since the last reset, which ends Suspended only for a budget <= 0.
C1_SuspendedTickNeverBursts ==
    [][RunLoopIteration
         => /\ (optimization_mode = "Disabled" \/ ~config.enabled)
                  => cadence' = "Suspended"
            /\ cadence' = "Suspended"
                  => /\ last_tick'.attempts = 0
                     /\ last_burst_kb' = last_burst_kb
                     /\ \/ hourly_budget_used_kb' = hourly_budget_used_kb
                        \/ /\ hourly_budget_used_kb' = 0
                           /\ since_last_reset >= 3600
                           /\ config.hourly_budget_kb <= 0]_vars

C1_Witness ==
    /\ cadence = "Suspended"
    /\ last_tick.path = "over_budget"
    /\ hourly_budget_used_kb > 0

\* C2: a tick that starts Suspended and is not itself suspended ends in
\* Warmup, never in Steady or Recovery.
C2_SuspendedExitsToWarmup ==
    (last_tick.path # "none" /\ last_tick.from = "Suspended" /\ cadence # "Suspended")
        => cadence = "Warmup"

C2_Witness ==
    /\ last_tick.from = "Suspended"
    /\ last_tick.path = "burst"
    /\ cadence = "Warmup"

\* C3 as stated: the budget usage never exceeds the configured hourly
\* budget plus the size of one burst.
C3_UsageWithinBudgetPlusOneBurst ==
    hourly_budget_used_kb <= config.hourly_budget_kb + LargestBurstKb

\* C4: the hourly reset happens only in a tick that starts an hour or more
\* after the previous reset (or construction); in every other step the
\* budget usage does not decrease.
C4_ResetOncePerElapsedHour ==
    [][/\ (last_tick'.reset /\ RunLoopIteration) => since_last_reset >= 3600
       /\ ~(last_tick'.reset /\ RunLoopIteration)
             => hourly_budget_used_kb' >= hourly_budget_used_kb]_vars

C4_Witness ==
    /\ last_tick.reset
    /\ last_tick.path = "burst"

\* C5 as stated: a non-suspended tick that starts in Warmup or Recovery
\* with relax_threshold_stability_s seconds or more passed since the last
\* cadence transition ends in Steady.
C5_SteadyAfterStableTime ==
    [][(/\ RunLoopIteration
        /\ ActiveTick(last_tick')
        /\ cadence \in {"Warmup", "Recovery"}
        /\ since_transition >= config.relax_threshold_stability_s)
         => cadence' = "Steady"]_vars

\* C6: a non-suspended tick that starts in Steady ends in Recovery exactly
\* when trend <= 1 - tighten_threshold_drop and in Steady otherwise (ratio
\* 0.5 with drop 0.3 gives Recovery); one that starts in Warmup never ends
\* in Recovery.
C6_SteadyToRecoveryOnDrop ==
    [][\A recent \in RecentMetrics :
         LET trend == TrendRatio(recent)
             drop == 10 * trend.num <= (10 - config.tighten_threshold_drop) * trend.den
             \* what the claim says of the cadence after a tick with `recent`
             as_claimed ==
                 /\ cadence = "Steady"
                      => cadence' = (IF drop THEN "Recovery" ELSE "Steady")
                 /\ (/\ cadence = "Steady"
                     /\ recent = Samples(<<5>>, <<10, 10>>)
                     /\ config.tighten_threshold_drop = 3)
                      => cadence' = "Recovery"
                 /\ cadence = "Warmup" => cadence' # "Recovery"
             \* the step is an active tick of the loop with `recent`
             ticked ==
                 /\ loop_alive /\ is_running
                 /\ cadence \in {"Steady", "Warmup"}
                 /\ ActiveTick(last_tick')
                 /\ UNCHANGED <<optimization_mode, config, is_running, spawned,
                                loop_alive>>
                 /\ \E hour \in HoursOfDay : KeeperTick(recent, hour)
         IN  as_claimed \/ ~ticked]_vars

C6_Witness ==
    /\ last_tick.from = "Steady"
    /\ ActiveTick(last_tick)
    /\ cadence = "Recovery"

\* the store answered with an error, or with no sample of the last 20 s
\* (which covers an answer with no sample of the last 40 s)
MissingData(recent) == ~recent.ok \/ recent.last20 = << >>

\* C39 as claimed, checked under SpecKeeper: with missing throughput data
\* (a store error, no sample of the last 40 s, or no sample of the last
\* 20 s) the trend ratio is 1.0 and a tick of a Keeper in Steady does not
\* move it to Recovery.  The code violates it when the last 20 s have no
\* sample and the 20 s before them have one.
C39_MissingDataNeverTriggersRecovery ==
    [][\A recent \in {r \in RecentMetrics : MissingData(r)} :
         LET trend == TrendRatio(recent)
             as_claimed ==
                 cadence = "Steady"
                   => /\ trend.num = trend.den
                      /\ cadence' # "Recovery"
             ticked ==
                 /\ loop_alive /\ is_running
                 /\ ActiveTick(last_tick')
                 /\ UNCHANGED <<optimization_mode, config, is_running, spawned,
                                loop_alive>>
                 /\ \E hour \in HoursOfDay : KeeperTick(recent, hour)
         IN  as_claimed \/ ~ticked]_vars

(***************************************************************************)
(* Claims about the Stealth Engine                                         *)
(***************************************************************************)
RiskRank(risk) ==
    CASE risk = "Low" -> 0
      [] risk = "Medium" -> 1
      [] risk = "High" -> 2
      [] risk = "Critical" -> 3

\* C7: assess_detection_risk is the worse of the failure signal (0..2 Low,
\* 3..5 Medium, 6..11 High, 12 and more Critical) and the effectiveness
\* signal (below 0.3 High, below 0.6 Medium, else Low); so it never goes
\* down when the failures go up at a fixed score, and the effectiveness
\* signal alone never gives Critical.  Checked for the score of every
\* reachable state and the scores 0.0, 0.3, 0.6 and 1.0.
C7_RiskIsWorseOfTwoSignals ==
    LET failure_signal(f) ==
            IF f \in 0..2 THEN "Low"
            ELSE IF f \in 3..5 THEN "Medium"
            ELSE IF f \in 6..11 THEN "High"
            ELSE "Critical"
        effectiveness_signal(s) ==
            IF FLess(s, F64_0_3) THEN "High"
            ELSE IF FLess(s, F64_0_6) THEN "Medium"
            ELSE "Low"
        worse(a, b) == IF RiskRank(a) >= RiskRank(b) THEN a ELSE b
    IN  \A s \in {effectiveness_score, F64Zero, F64_0_3, F64_0_6, F64_1_0} :
            /\ effectiveness_signal(s) # "Critical"
            /\ \A f \in 0..(MaxFailures + 2) :
                /\ AssessDetectionRisk(f, s) = worse(failure_signal(f), effectiveness_signal(s))
                /\ RiskRank(AssessDetectionRisk(f + 1, s)) >= RiskRank(AssessDetectionRisk(f, s))
                /\ f <= 11 => AssessDetectionRisk(f, s) # "Critical"

\* an adaptation has stored a Medium risk that only the score explains
C7_Witness ==
    /\ consecutive_failures = 2
    /\ current_risk_level = "Medium"
    /\ FLess(effectiveness_score, F64_0_6)

\* C8: on a fresh engine, after n failures and no success that reports an
\* effectiveness, assess_detection_risk is Low for n <= 2, Medium for
\* 3 <= n <= 5, High for 6 <= n <= 11 and Critical for n >= 12.
C8_FreshEngineFailureBands ==
    ema_updates = 0
        => AssessDetectionRisk(consecutive_failures, effectiveness_score)
             = (IF consecutive_failures <= 2 THEN "Low"
                ELSE IF consecutive_failures <= 5 THEN "Medium"
                ELSE IF consecutive_failures <= 11 THEN "High"
                ELSE "Critical")

C8_Witness ==
    /\ ema_updates = 0
    /\ consecutive_failures = 12
    /\ AssessDetectionRisk(consecutive_failures, effectiveness_score) = "Critical"

\* a failure, seen in a step
FailureStep == consecutive_failures' = consecutive_failures + 1

\* a success that reports the effectiveness e, seen in a step
SuccessStep(e) ==
    /\ ema_updates' = ema_updates + 1
    /\ RecordConnectionResult(TRUE, Some(e))

\* C9 as stated: the score strictly decreases after any failure and
\* strictly increases after any success reported with e > score; no other
\* call changes it.
C9_ScoreStrictlyMoves ==
    [][/\ FailureStep => FLess(effectiveness_score', effectiveness_score)
       /\ \A e \in EffectivenessValues :
            (SuccessStep(e) /\ FLess(effectiveness_score, e))
                => FLess(effectiveness_score, effectiveness_score')
       /\ effectiveness_score' # effectiveness_score
            => (FailureStep \/ ema_updates' = ema_updates + 1)]_vars

\* 2^-40, about 1e-12
TinyGap == [sig |-> <<0, 0, 0, 1024>>, exp |-> -92]

\* at least 2^-1000, far above the subnormal f64 numbers
WellAboveSubnormal(x) == ~IsZero(x) /\ x.exp >= -1052

\* C9 amended: a score of at least 2^-1000 strictly decreases after any
\* failure; the score strictly increases after any success reported with
\* an effectiveness e in [0, 1] that exceeds it by more than 2^-40 (closer
\* to e than that, the rounding of the f64 sum can leave the score where
\* it was); a success reported without an effectiveness value leaves the
\* score unchanged.
C9_ScoreMovesUpToRounding ==
    [][/\ (FailureStep /\ WellAboveSubnormal(effectiveness_score))
            => FLess(effectiveness_score', effectiveness_score)
       /\ \A e \in EffectivenessValues :
            (SuccessStep(e) /\ FLess(FAdd(effectiveness_score, TinyGap), e))
                => FLess(effectiveness_score, effectiveness_score')
       /\ effectiveness_score' # effectiveness_score
            => (FailureStep \/ ema_updates' = ema_updates + 1)]_vars

\* five successes, a failure (score about 0.7503), then a success with 0.8
\* that raised the score to about 0.7652
C9_Witness ==
    /\ ema_updates = 6
    /\ consecutive_failures = 1
    /\ FLess([sig |-> <<0, 0, 0, 1536>>, exp |-> -53], effectiveness_score)
    /\ FLess(effectiveness_score, [sig |-> <<0, 0, 0, 1600>>, exp |-> -53])

\* C10: no step resets or decreases consecutive_failures: a success leaves
\* it unchanged and a failure adds exactly 1, so the failure signal of the
\* risk never goes down.
C10_FailuresNeverReset ==
    [][/\ consecutive_failures' >= consecutive_failures
       /\ consecutive_failures' # consecutive_failures
            => /\ consecutive_failures' = consecutive_failures + 1
               /\ ema_updates' = ema_updates
       /\ ema_updates' # ema_updates => consecutive_failures' = consecutive_failures
       /\ RiskRank(FailureRisk(consecutive_failures'))
            >= RiskRank(FailureRisk(consecutive_failures))]_vars

\* three failures, then a success with 1.0: the score is 0.7 * 0.729 + 0.3
\* and the counter is still 3
C10_Witness ==
    /\ consecutive_failures = 3
    /\ ema_updates = 1
    /\ ~FLess(effectiveness_score, F64_0_8)

(***************************************************************************)
(* Claims about the operations of the Stealth Engine, checked under        *)
(* SpecEngine                                                              *)
(***************************************************************************)
\* the fields of AdaptiveStealthState that the model holds
AdaptiveStealthState ==
    <<current_risk_level, consecutive_failures, effectiveness_score, adaptation_count>>

\* a step of execute_stealth_cycle
CycleStep ==
    \E outcome \in CycleOutcomes, elapsed \in CycleElapsed :
        ExecuteStealthCycle(outcome, elapsed)

\* C11 as stated: every operation other than record_connection_result, that
\* is start, stop, rotate_servers, the status queries and
\* adapt_stealth_strategy, leaves AdaptiveStealthState unchanged.
C11_OnlyRecordResultMutates ==
    [][(Start \/ Stop \/ RotateServers \/ GetStealthStats \/ AdaptStealthStrategy)
         => UNCHANGED AdaptiveStealthState]_vars

\* C11, amended: consecutive_failures and effectiveness_score change only in
\* a mimicry round that calls record_connection_result; current_risk_level
\* and adaptation_count change only by adapt_stealth_strategy, called by
\* itself or in a mimicry round, and that call leaves the failures and the
\* score unchanged; start, stop, rotate_servers and the status queries
\* leave the whole state unchanged.
C11_RecordAndAdaptShareTheState ==
    [][/\ (Start \/ Stop \/ RotateServers \/ GetStealthStats)
            => UNCHANGED AdaptiveStealthState
       /\ AdaptStealthStrategy
            => UNCHANGED <<consecutive_failures, effectiveness_score>>
       /\ (\/ consecutive_failures' # consecutive_failures
           \/ effectiveness_score' # effectiveness_score)
            => CycleStep /\ last_cycle'.records = 1
       /\ (\/ current_risk_level' # current_risk_level
           \/ adaptation_count' # adaptation_count)
            => AdaptStealthStrategy \/ (CycleStep /\ last_cycle'.adapted)]_vars

\* an adaptation called by itself has raised the risk level of an engine
\* that recorded 6 failures before
C11_Witness ==
    /\ last_cycle = NoCycle
    /\ adaptation_count = 1
    /\ consecutive_failures = 6
    /\ current_risk_level = "High"

\* the latest cycle made a mimicry attempt: it went on to the traffic stage
MimicryAttempt(cycle) == cycle.path \in {"raw", "http", "client_error"}

\* C12: every mimicry attempt calls record_connection_result exactly once on
\* every exit path (success, failure of the connection, failure to build the
\* client), at every stealth level.
C12_OneRecordPerAttempt ==
    MimicryAttempt(last_cycle) => last_cycle.records = 1

\* C13: a round in which only sub-requests fail is not recorded as a failure,
\* and a round whose connection fails as a whole is recorded as a failure,
\* at the levels that use the HTTP client as well as at Maximum.
C13_WholeFailureRecorded ==
    /\ (last_cycle.path = "http" /\ last_cycle.net = "partial")
           => last_cycle.recorded = "success"
    /\ (last_cycle.path \in {"raw", "http"} /\ last_cycle.net = "down")
           => last_cycle.recorded = "failure"

\* a step in which adapt_stealth_strategy ran: called by itself or within a
\* mimicry round
AdaptationStep ==
    AdaptStealthStrategy \/ (CycleStep /\ last_cycle'.adapted)

\* C14: every call of adapt_stealth_strategy increases adaptation_count by
\* exactly 1 and sets current_risk_level to the risk it assessed, whether or
\* not the level changed.
C14_EveryAdaptationCounts ==
    [][AdaptationStep
         => /\ adaptation_count' = adaptation_count + 1
            /\ current_risk_level' =
                   AssessDetectionRisk(consecutive_failures, effectiveness_score)]_vars

\* two adaptations were counted on an engine whose risk level stayed Low
C14_Witness ==
    /\ adaptation_count = 2
    /\ consecutive_failures = 0
    /\ current_risk_level = "Low"
    /\ last_cycle.adapted

\* C15: after an adaptation the rotation interval is 180 s at Medium risk and
\* 120 s at High risk, also when the same cycle rotated before and drew a
\* longer interval; at Low and Critical risk the adaptation leaves the
\* rotation interval, index, time of the last rotation and endpoint list
\* unchanged.
C15_AdaptationSetsRotationInterval ==
    [][/\ AdaptationStep
            => /\ current_risk_level' = "Medium" => rotation_interval' = 180
               /\ current_risk_level' = "High" => rotation_interval' = 120
       /\ (AdaptStealthStrategy /\ current_risk_level' \in {"Low", "Critical"})
            => UNCHANGED <<rotation_interval, rotationVars>>
       /\ (/\ CycleStep
           /\ last_cycle'.adapted
           /\ ~last_cycle'.rotated
           /\ current_risk_level' \in {"Low", "Critical"})
            => UNCHANGED <<rotation_interval, servers_in_rotation,
                           current_server_index>>]_vars

\* a cycle rotated to the next server and then adapted at High risk
C15_Witness ==
    /\ last_cycle.rotated
    /\ last_cycle.adapted
    /\ last_cycle.risk = "High"
    /\ current_server_index = 1
    /\ rotation_interval = 120

\* C16: Critical risk never stops the engine: a cycle that assesses Critical
\* pauses and still goes on to its mimicry round, and is_active stays true
\* until stop() is called.
C16_CriticalNeverStops ==
    [][/\ (CycleStep /\ last_cycle'.adapted /\ last_cycle'.risk = "Critical")
            => /\ last_cycle'.paused
               /\ MimicryAttempt(last_cycle')
               /\ is_active' = is_active
       /\ (is_active /\ ~is_active') => Stop]_vars

\* an active engine has sent the traffic of a round in a cycle that assessed
\* Critical risk
C16_Witness ==
    /\ is_active
    /\ last_cycle.risk = "Critical"
    /\ last_cycle.paused
    /\ last_cycle.path \in {"raw", "http"}

\* C17: start() and stop() are idempotent: start() on an active engine
\* returns Ok and leaves the rotation set, interval and index unchanged;
\* stop() on an inactive engine, one never started included, returns Ok and
\* changes nothing; stop() on an active engine clears the connections and
\* makes the engine inactive.
C17_StartStopIdempotent ==
    [][/\ (Start /\ is_active)
            => /\ last_call'.result = "Ok"
               /\ UNCHANGED <<is_active, rotation_interval, rotationVars,
                              active_connections, stealthVars>>
       /\ (Stop /\ ~is_active)
            => /\ last_call'.result = "Ok"
               /\ UNCHANGED <<is_active, rotation_interval, rotationVars,
                              active_connections, stealthVars, stealth_level,
                              server_pool, last_cycle>>
       /\ (Stop /\ is_active)
            => /\ last_call'.result = "Ok"
               /\ active_connections' = {}
               /\ ~is_active']_vars

\* start() was called on an active engine that holds a connection and has
\* rotated once
C17_Witness ==
    /\ last_call = [op |-> "start", result |-> "Ok", was_active |-> TRUE]
    /\ is_active
    /\ active_connections # {}
    /\ current_server_index = 1

\* the servers of a pool that lie in one of the regional countries
RegionalServersOf(pool) ==
    {pool[i] : i \in {j \in 1..Len(pool) :
                        \E k \in 1..Len(RegionalCountries) :
                            pool[j].country = RegionalCountries[k]}}

\* the servers of a sequence, as a set
ServersOf(servers) == {servers[i] : i \in 1..Len(servers)}

\* the smaller of two numbers
Smaller(a, b) == IF a < b THEN a ELSE b

C19_OneLoopPerComponent ==
    /\ is_running => keeper_loops <= 1
    /\ is_active => stealth_loops <= 1

\* C20: the Keeper and the Stealth Engine read the shared flag at the start
\* of every cycle, and neither sends traffic in a cycle that began while the
\* flag was Disabled.  The Keeper's ticks are covered by
\* C1_SuspendedTickNeverBursts; this is the statement for the cycles of the
\* Stealth Engine: a cycle that sent the traffic of a round began while the
\* flag was Enabled.
C20_NoTrafficWhileDisabled ==
    last_cycle.path \in {"raw", "http"} => last_cycle.mode = "Enabled"

(***************************************************************************)
(* Claims about the bursts of the Throughput Keeper, checked under         *)
(* SpecBursts                                                              *)
(***************************************************************************)
\* C22 as stated: the burst size of a tick is the smallest configured size
\* in Warmup, min(2 x previous successful size, largest configured size) in
\* Recovery, the previous successful size in Steady and 0 in Suspended, for
\* every configured list of sizes (taken here for the lists that have a
\* smallest and a largest size).
C22_SizeByCadence ==
    [][(BurstLoopIteration /\ config.burst_sizes_kb # << >>)
         => LET sizes == SeqRange(config.burst_sizes_kb)
                size_kb == last_tick'.size_kb
            IN  /\ cadence' = "Warmup" => size_kb = MinOf(sizes)
                /\ cadence' = "Recovery"
                     => size_kb = Smaller(2 * last_burst_kb, MaxOf(sizes))
                /\ cadence' = "Steady" => size_kb = last_burst_kb
                /\ cadence' = "Suspended" => size_kb = 0]_vars

\* C22, amended: the burst size of a tick is the smallest configured size
\* but at least 64 KB in Warmup, min(2 x previous successful size, largest
\* configured size) in Recovery, the previous successful size in Steady and
\* 0 in Suspended; an empty list counts as smallest 64 and largest 256, and
\* the previous successful size is 64 before the first successful burst.
C22_SizeByCadenceWithFloor ==
    [][BurstLoopIteration
         => LET sizes == SeqRange(config.burst_sizes_kb)
                smallest == IF sizes = {} THEN 64 ELSE MinOf(sizes)
                largest == IF sizes = {} THEN 256 ELSE MaxOf(sizes)
                size_kb == last_tick'.size_kb
            IN  /\ cadence' = "Warmup"
                     => size_kb = (IF smallest < 64 THEN 64 ELSE smallest)
                /\ cadence' = "Recovery"
                     => size_kb = Smaller(2 * last_burst_kb, largest)
                /\ cadence' = "Steady" => size_kb = last_burst_kb
                /\ cadence' = "Suspended" => size_kb = 0
                /\ last_tick'.success => last_burst_kb' = size_kb
                /\ ~last_tick'.success => last_burst_kb' = last_burst_kb]_vars

\* a Warmup tick sent 64 KB while the smallest configured size is 32 KB
C22_Witness ==
    /\ last_tick.path = "burst"
    /\ cadence = "Warmup"
    /\ config.burst_sizes_kb = <<32, 128>>
    /\ last_tick.size_kb = 64
    /\ last_tick.success

\* C23: a burst whose network request fails is retried, with at most 3
\* attempts and waits of 1 s, 2 s and 4 s after the failed attempts; when an
\* attempt succeeds the budget usage grows by exactly the burst size and the
\* size is remembered; when all attempts fail the usage and the remembered
\* size are unchanged.
C23_FailedBurstIsRetried ==
    [][(BurstLoopIteration /\ last_tick'.path = "burst")
         => LET tick == last_tick'
                used == IF tick.reset THEN 0 ELSE hourly_budget_used_kb
                failed == IF tick.success THEN tick.attempts - 1 ELSE 3
            IN  /\ tick.attempts \in 1..3
                /\ tick.waits = SubSeq(<<1, 2, 4>>, 1, failed)
                /\ tick.net = "down" => ~tick.success /\ tick.attempts = 3
                /\ tick.success
                     => /\ hourly_budget_used_kb' = used + tick.size_kb
                        /\ last_burst_kb' = tick.size_kb
                /\ ~tick.success
                     => /\ hourly_budget_used_kb' = used
                        /\ last_burst_kb' = last_burst_kb]_vars

\* C24: every tick emits exactly one progress event before the loop sleeps,
\* whether it was suspended, sent a burst, failed its burst or chose a burst
\* size of 0.
C24_OneProgressEventPerTick ==
    last_tick.path # "none" => last_tick.events = 1

(***************************************************************************)
(* Claims about stopping, checked under SpecStopping                       *)
(***************************************************************************)
\* C21: stopping a component only flips its running flag: after stop() with
\* no later start() the Keeper loop and the Stealth loop start no further
\* tick and exit.  Every start request leaves the shared flag Enabled and
\* every stop request leaves it Disabled, so while the flag stays Disabled
\* no start was requested: in such a step is_running and is_active are not
\* set again and no stealth cycle runs on a stopped engine.
C21_StoppedStaysStopped ==
    [][(optimization_mode = "Disabled" /\ optimization_mode' = "Disabled")
         => /\ ~(~is_running /\ is_running')
            /\ ~(~is_active /\ is_active')
            /\ ~is_active => last_cycle' = last_cycle]_vars

(***************************************************************************)
(* Claims about the Pattern Learning Engine, checked under SpecLearning    *)
(***************************************************************************)
\* C25: train_model called when the store holds fewer than 50 measurements
\* in the training window returns Ok and leaves every field of the
\* learning model as it was; on an engine that has never completed a pass
\* the model stays at its default: empty maps, confidence 0.0 and
\* training_samples 0.
C25_TooFewSamplesLeaveTheModel ==
    [][(Count(MeasurementsSince(30)) < 50 /\ TrainModel)
           => /\ last_op'.result = "Ok"
              /\ learning_model' = learning_model
              /\ learning_model.last_updated = 0
                     => /\ DOMAIN learning_model'.strategy_effectiveness = {}
                        /\ DOMAIN learning_model'.temporal_weights = {}
                        /\ DOMAIN learning_model'.weekly_weights = {}
                        /\ DOMAIN learning_model'.isp_parameters = {}
                        /\ learning_model'.model_confidence = 0
                        /\ learning_model'.training_samples = 0]_vars

\* a fresh engine has been trained on 45 measurements
C25_Witness ==
    /\ store = FewMeasurements
    /\ last_op.op = "train"
    /\ last_op.result = "Ok"
    /\ last_op.samples = 45
    /\ learning_model = DefaultModel

\* the calls that return or use the analysis of analyze_patterns
AnalysisOps == {"analyze", "decide", "status"}

\* C26: whenever the set of measurements analysed has fewer than 50
\* entries, analyze_patterns returns confidence 0.0 and no throttling
\* window, whatever an earlier training pass stored in the model.
C26_FewerThan50IsZeroConfidence ==
    (last_op.op \in AnalysisOps /\ last_op.samples < 50)
        => /\ last_op.analysis.confidence_level = 0
           /\ last_op.analysis.throttling_periods = {}

\* C26, amended: whenever the set of measurements analysed has fewer than
\* 20 entries, analyze_patterns returns confidence 0.0 and no throttling
\* window, whatever an earlier training pass stored in the model.
C26_FewerThan20IsZeroConfidence ==
    (last_op.op \in AnalysisOps /\ last_op.samples < 20)
        => /\ last_op.analysis.confidence_level = 0
           /\ last_op.analysis.throttling_periods = {}

\* an analysis of fewer than 20 measurements by an engine whose model holds
\* a confidence and throttled hours
C26_Witness ==
    /\ last_op.op = "analyze"
    /\ last_op.samples < 20
    /\ learning_model.model_confidence > 0
    /\ \E h \in DOMAIN learning_model.temporal_weights :
           5 * learning_model.temporal_weights[h].num
               < 3 * learning_model.temporal_weights[h].den
    /\ last_op.analysis.confidence_level = 0
    /\ last_op.analysis.throttling_periods = {}

\* the reasons should_optimize gives
DecisionReasons ==
    {"Throttling patterns detected with sufficient confidence",
     "Insufficient data confidence for optimization",
     "No significant throttling patterns detected"}

\* C27: should_optimize returns should_activate = true exactly when the
\* confidence of the analysis is above 0.6, the baseline speed is above 0
\* and there is at least one throttling window; its reason is one of three
\* fixed strings; estimated_improvement is present exactly when
\* should_activate is true, and is then at least 1.0.
C27_DecisionLogic ==
    last_op.op = "decide"
        => /\ last_op.decision.should_activate
                  <=> /\ last_op.analysis.confidence_level > Confidence(600)
                      /\ last_op.analysis.baseline_speed.num > 0
                      /\ last_op.analysis.throttling_periods # {}
           /\ last_op.decision.reason \in DecisionReasons
           /\ last_op.decision.estimated_improvement.some
                  <=> last_op.decision.should_activate
           /\ last_op.decision.estimated_improvement.some
                  => ~RatioLess(last_op.decision.estimated_improvement.value, Ratio(1, 1))

\* a decision to activate with an estimated improvement above 1.0
C27_Witness ==
    /\ last_op.op = "decide"
    /\ last_op.decision.should_activate
    /\ last_op.decision.estimated_improvement.some
    /\ RatioLess(Ratio(1, 1), last_op.decision.estimated_improvement.value)

\* the three reasons are given
C27_WitnessNoPattern ==
    /\ last_op.op = "decide"
    /\ last_op.decision.reason = "No significant throttling patterns detected"

C27_WitnessNoConfidence ==
    /\ last_op.op = "decide"
    /\ last_op.decision.reason = "Insufficient data confidence for optimization"
    /\ last_op.analysis.throttling_periods # {}
    /\ last_op.analysis.baseline_speed.num > 0

\* C28: get_status returns Learning whenever the collected days are below
\* the configured minimum, with days_collected < days_needed in its
\* progress data; otherwise Optimizing, with effectiveness metrics, when
\* the confidence is above 0.6; otherwise Monitoring.  For an empty store
\* it returns Learning whenever the minimum is positive.
C28_StatusByDaysAndConfidence ==
    last_op.op = "status"
        => LET status == last_op.status
               learning == last_op.analysis.data_collection_days < min_learning_days
               confident == last_op.analysis.confidence_level > Confidence(600)
           IN  /\ learning
                      => /\ status.state = "Learning"
                         /\ status.progress
                         /\ status.days_collected < status.days_needed
               /\ (~learning /\ confident)
                      => /\ status.state = "Optimizing"
                         /\ status.effectiveness
               /\ (~learning /\ ~confident) => status.state = "Monitoring"
               /\ (store = << >> /\ min_learning_days > 0) => status.state = "Learning"

\* the status of an engine with enough days and a confidence above 0.6
C28_Witness ==
    /\ last_op.op = "status"
    /\ min_learning_days > 0
    /\ last_op.analysis.data_collection_days >= min_learning_days
    /\ last_op.status.state = "Optimizing"
    /\ last_op.status.effectiveness

\* the status of an engine that has collected one day of the seven it needs
C28_WitnessLearning ==
    /\ last_op.op = "status"
    /\ last_op.status.state = "Learning"
    /\ last_op.status.days_collected = 1
    /\ last_op.status.days_needed = 7

C28_WitnessMonitoring ==
    /\ last_op.op = "status"
    /\ last_op.status.state = "Monitoring"
    /\ min_learning_days > 0

\* the hours of a model that analyze_patterns reports as throttling windows
ThrottledHours(model) ==
    {h \in DOMAIN model.temporal_weights :
        5 * model.temporal_weights[h].num < 3 * model.temporal_weights[h].den}

\* the model that a training pass over the current store builds from an
\* empty model
Rebuilt == TrainModelOn(DefaultModel, "none").model

\* C29: each successful training pass rebuilds the learning model from the
\* measurements of that pass: after it, temporal_weights, weekly_weights,
\* strategy_effectiveness and isp_parameters hold only entries that the
\* current measurements yield, so that an hour, weekday, strategy or ISP
\* that an earlier pass entered and that no longer qualifies is absent,
\* and the throttling windows derived from the model carry no stale hour.
C29_ModelIsRebuiltEachPass ==
    (last_op.op = "train" /\ last_op.result = "Ok" /\ last_op.samples >= 50)
        => /\ DOMAIN learning_model.temporal_weights \subseteq DOMAIN Rebuilt.temporal_weights
           /\ DOMAIN learning_model.weekly_weights \subseteq DOMAIN Rebuilt.weekly_weights
           /\ DOMAIN learning_model.strategy_effectiveness
                  \subseteq DOMAIN Rebuilt.strategy_effectiveness
           /\ DOMAIN learning_model.isp_parameters \subseteq DOMAIN Rebuilt.isp_parameters
           /\ ThrottledHours(learning_model) \subseteq ThrottledHours(Rebuilt)

\* C30: after a training pass over N >= 50 measurements, model_confidence
\* is 0.3 * min(N / 1000, 1) + 0.4 * (mean confidence of the strategies)
\* + 0.3 * (temporal coverage credit), with N the number of measurements
\* of that same pass and the higher credit from 12 scored hours on; it lies
\* in [0, 1]; and a first pass over comprehensive measurements (more than
\* 500, all hours, a clear improvement) yields a confidence above 0.7.
C30_ConfidenceOfThePass ==
    (last_op.op = "train" /\ last_op.result = "Ok" /\ last_op.samples >= 50)
        => /\ learning_model.training_samples = last_op.samples
           /\ learning_model.model_confidence
                  = CalculateModelConfidence(learning_model).model_confidence
           /\ learning_model.model_confidence \in 0..Confidence(1000)
           /\ (store = ComprehensiveMeasurements /\ learning_model.last_updated = 1)
                  => learning_model.model_confidence > Confidence(700)

\* the stealth level and the detection risk that the rule of the
\* specification gives an ISP: effectiveness in hundredths
RuleStealthLevel(known, effectiveness) ==
    IF known THEN (IF effectiveness > 80 THEN "High" ELSE "Maximum") ELSE "Medium"

RuleDetectionRisk(known, effectiveness) ==
    IF effectiveness < 50 THEN 9 ELSE IF known THEN 6 ELSE 3

\* the optimized measurements of the last 60 days at the hours of day that
\* have three of them or more
ScoredMeasurements ==
    LET optimized == Optimized(MeasurementsSince(60))
    IN  AtHours(optimized, HoursWith(optimized, 3))

\* the parameters of the current ISP follow the rule for some effectiveness
\* between the lowest and the highest score of the store
ParametersFollowTheRule ==
    /\ isp_profile \in DOMAIN learning_model.isp_parameters
    /\ \E effectiveness \in 0..100 :
         LET params == learning_model.isp_parameters[isp_profile]
             known == IsKnownThrottlingIsp(isp_profile)
         IN  /\ params.optimal_stealth_level = RuleStealthLevel(known, effectiveness)
             /\ params.detection_risk = RuleDetectionRisk(known, effectiveness)

\* a training pass that read 50 measurements or more and returned Ok
TrainedWithProfile ==
    /\ last_op.op = "train"
    /\ last_op.result = "Ok"
    /\ last_op.samples >= 50
    /\ isp_profile # "none"

C31_Learned(level, risk) ==
    /\ TrainedWithProfile
    /\ Count(MeasurementsSince(60)) >= 100
    /\ Count(Optimized(MeasurementsSince(60))) >= 20
    /\ isp_profile \in DOMAIN learning_model.isp_parameters
    /\ learning_model.isp_parameters[isp_profile].optimal_stealth_level = level
    /\ learning_model.isp_parameters[isp_profile].detection_risk = risk

C31_WitnessHigh == C31_Learned("High", 6)

C31_WitnessLowEffectiveness == C31_Learned("Maximum", 9)

C31_WitnessOtherIsp == C31_Learned("Medium", 3)

(***************************************************************************)
(* Claims about the Decision Loop, checked under SpecDecisionLoop          *)
(***************************************************************************)

\* a step of the task of DecisionEngine::run
DecisionLoopStep == decision_engine' # decision_engine

\* C32: no step of a cycle of the Decision Loop (clean-up, training,
\* decision with its log line, sleep) changes the optimization mode, the
\* running flag or the loops of the Keeper, or the activity or the loops of
\* the Stealth Engine; the optimization mode changes only in a step of
\* toggle_optimization, start_optimization or stop_optimization.
C32_DecisionLoopIsAdvisory ==
    [][/\ DecisionLoopStep
            => UNCHANGED <<optimization_mode, is_running, spawned, loop_alive,
                           keeper_loops, is_active, stealth_loops>>
       /\ optimization_mode' # optimization_mode
            => \/ ToggleOptimization
               \/ StartOptimization
               \/ StopOptimization]_vars

\* the loop has logged a decision to activate and the optimization is off,
\* or a decision not to activate and the optimization is on
C32_Witness ==
    /\ decision_engine.pc = "sleep"
    /\ \/ decision_engine.info = "activate" /\ optimization_mode = "Disabled"
       \/ decision_engine.info = "stay" /\ optimization_mode = "Enabled"

C32_WitnessActivate ==
    /\ decision_engine.pc = "sleep"
    /\ decision_engine.info = "activate"
    /\ optimization_mode = "Disabled"
    /\ ~is_active

\* the steps of a cycle in the order of run()
StepOrder == [cleanup |-> "train", train |-> "decide", decide |-> "sleep", sleep |-> "cleanup"]

\* every step of the loop is followed by the next step of the cycle, and the
\* sleep by the clean-up of the next cycle, whatever the step returned
LoopGoesOn ==
    /\ decision_engine'.pc = StepOrder[decision_engine.pc]
    /\ decision_engine'.pc # "returned"

\* C33 as claimed: a store error in any step of a cycle (clean-up, training,
\* decision) is logged and the loop goes on.  The code violates it: the
\* error of the clean-up is dropped without a log line.
C33_EveryStoreErrorIsLogged ==
    [][DecisionLoopStep
         => /\ LoopGoesOn
            /\ \A step \in decision_engine'.failed :
                 /\ WarningsOf(step, "Err") # {}
                 /\ WarningsOf(step, "Err") \subseteq decision_engine'.warnings]_vars

\* C33 amended: a store error in the training or in the decision is logged
\* as a warning, a store error in the clean-up is dropped without a log
\* line; after any of them the loop takes the remaining steps of the cycle,
\* sleeps and starts the next cycle, and run() does not return.
C33_StoreErrorsAreNeverFatal ==
    [][DecisionLoopStep
         => /\ LoopGoesOn
            /\ ("train" \in decision_engine'.failed)
                 = ("Model training failed" \in decision_engine'.warnings)
            /\ ("decide" \in decision_engine'.failed)
                 = ("Decision evaluation failed" \in decision_engine'.warnings)
            /\ decision_engine'.warnings
                 \subseteq {"Model training failed", "Decision evaluation failed"}]_vars

\* the loop has started its next cycle after one in which every step failed
C33_Witness ==
    /\ decision_engine.cycles >= 1
    /\ decision_engine.pc = "cleanup"
    /\ decision_engine.failed = {"cleanup", "train", "decide"}
    /\ Cardinality(decision_engine.warnings) = 2

(***************************************************************************)
(* Claims about the Background Monitor, checked under SpecMonitor          *)
(***************************************************************************)

\* no spawned task has a step left that ends it: each one has returned, or
\* is in its loop with is_running set and nothing to receive
MonitorSettled ==
    \A i \in 1..Len(monitor.tasks) :
        \/ monitor.tasks[i].pc = "done"
        \/ /\ monitor.tasks[i].pc = "loop"
           /\ monitor.tasks[i].signal = "open"
           /\ monitor.is_running

MonitorTaskAlive == \E i \in 1..Len(monitor.tasks) : monitor.tasks[i].pc = "loop"

\* C34 as claimed: once the tasks have settled, is_monitoring() is true
\* exactly when the latest call was start_monitoring and a monitoring task
\* is alive, and after a latest call of start_monitoring whose task came up
\* the monitor is monitoring.  The code violates it.
C34_MonitoringFollowsTheLatestCall ==
    (MonitorSettled /\ monitor.last_call # "none")
      => /\ monitor.is_running = (monitor.last_call = "start" /\ MonitorTaskAlive)
         /\ (/\ monitor.last_call = "start"
             /\ monitor.tasks[Len(monitor.tasks)].signal = "open")
              => monitor.is_running

(***************************************************************************)
(* Claims about the locks of the Stealth Engine, checked under SpecLocks   *)
(***************************************************************************)

\* the task waits for a lock in which `by` holds a guard that excludes it
WaitsFor(task, by) ==
    /\ task_pc[task] # "idle"
    /\ LET want == Wanted[task_pc[task]]
       IN  \E holder \in rwlocks[want[1]] :
              /\ holder[1] = by
              /\ want[2] = "write" \/ holder[2] = "write"

\* C35 as claimed: no step of a stealth cycle waits for a lock that its own
\* task holds, so the cycle ends when its network calls end.  The code
\* violates it in maintain_keep_alive_connections.
C35_CycleNeverWaitsForItself ==
    ~WaitsFor("cycle", "cycle")

\* C36 as claimed: a status query beside a stealth cycle never reaches a
\* state in which each of the two tasks waits for a lock that the other
\* holds.  The code violates it.
C36_StatsAndCycleNeverDeadlock ==
    ~(WaitsFor("stats", "cycle") /\ WaitsFor("cycle", "stats"))

(***************************************************************************)
(* Claims about the rotation of the Stealth Engine, checked under          *)
(* SpecEngine                                                              *)
(***************************************************************************)

RECURSIVE IndexAfterRotations(_, _, _)
\* the index after `times` calls of rotate_servers
IndexAfterRotations(index, servers, times) ==
    IF times = 0 THEN index
    ELSE IndexAfterRotations(NextServerIndex(index, servers), servers, times - 1)

\* C37: whenever the rotation list is not empty the active endpoint index
\* is smaller than its length, after any start, stop, restart, rotation and
\* cycle; rotate_servers moves the index on by one modulo the length of the
\* list, so that as many rotations as there are endpoints lead back to the
\* same endpoint, removes the connection entry of the endpoint it leaves and
\* no other, and changes nothing when the list is empty.
C37_RotationIndexInRange ==
    [][/\ servers_in_rotation' # << >>
            => current_server_index' < Len(servers_in_rotation')
       /\ RotateServers
            => IF servers_in_rotation = << >>
               THEN UNCHANGED vars
               ELSE LET length == Len(servers_in_rotation)
                        previous == servers_in_rotation[current_server_index + 1]
                    IN  /\ current_server_index' = (current_server_index + 1) % length
                        /\ IndexAfterRotations(current_server_index,
                                               servers_in_rotation, length)
                               = current_server_index
                        /\ active_connections'
                               = active_connections \ {previous.server_id}
                        /\ UNCHANGED servers_in_rotation]_vars

\* the engine has rotated to its last endpoint and was stopped there
C37_Witness ==
    /\ Len(servers_in_rotation) >= 2
    /\ current_server_index = Len(servers_in_rotation) - 1
    /\ ~is_active
    /\ last_call.op = "stop"
    /\ last_call.was_active

\* the engine was started again with the index at its last endpoint
C37_WitnessRestart ==
    /\ Len(servers_in_rotation) >= 2
    /\ current_server_index = Len(servers_in_rotation) - 1
    /\ is_active
    /\ last_call.op = "start"
    /\ ~last_call.was_active
    /\ active_connections = {}

(***************************************************************************)
(* Claims about the effectiveness score, checked under SpecStealth         *)
(***************************************************************************)

\* x is 0.0 or a positive f64 with a normalized significand
NonNegative(x) == IsZero(x) \/ BitAt(x.sig, 52) = 1

\* C38: the effectiveness score is within [0, 1] in every reachable state:
\* from 1.0, failures and successes that report an effectiveness in [0, 1]
\* never take it above 1.0 or below 0.0.
C38_EffectivenessInUnitRange ==
    /\ NonNegative(effectiveness_score)
    /\ ~FLess(F64_1_0, effectiveness_score)

\* a success that reported 1.0 has left the score of a fresh engine at 1.0
C38_Witness ==
    /\ ema_updates >= 1
    /\ consecutive_failures = 0
    /\ effectiveness_score = F64_1_0

\* failures and a success that reported 0.0 have taken the score below 0.3
C38_WitnessLow ==
    /\ ema_updates >= 1
    /\ consecutive_failures >= 1
    /\ FLess(effectiveness_score, F64_0_3)
    /\ ~IsZero(effectiveness_score)

\* a step of the training pass that returned the error of the store
TrainingFailed ==
    /\ decision_engine.pc = "train"
    /\ last_op'.op = "train"
    /\ last_op'.result = "Err"

\* C40: train_model is atomic with respect to errors: when the store fails at
\* any point of a training pass (the read of the samples, the read of the
\* current ISP profile, the computation of the strategy effectiveness),
\* train_model returns the error and the learning model is exactly as it was
\* before the call.
C40_TrainModelIsAtomicOnErrors ==
    [][TrainingFailed => learning_model' = learning_model]_vars

(***************************************************************************)
(* Specifications                                                          *)
(***************************************************************************)
Init == InitStealth /\ InitKeeper /\ InitEngine /\ InitLearning /\ InitTasks

\* a fresh Stealth Engine beside a Keeper that is left alone
InitStealthOnly ==
    /\ InitLearning
    /\ InitTasks
    /\ InitStealth
    /\ InitKeeper
    /\ config = BaseConfig
    /\ InitEngine
    /\ stealth_level = "Medium"
    /\ server_pool = << >>

\* the Stealth Engine under any calls of record_connection_result and
\* adapt_stealth_strategy
SpecStealth == InitStealthOnly /\ [][StealthNext]_vars

\* the Stealth Engine under the results its own mimicry rounds record
SpecMimicryResults == InitStealthOnly /\ [][MimicryResultsNext]_vars

\* the Keeper beside a Stealth Engine that is left alone
InitKeeperOnly ==
    /\ Init
    /\ stealth_level = "Medium"
    /\ server_pool = << >>

\* the Keeper
SpecKeeper == InitKeeperOnly /\ [][KeeperNext]_vars

\* failures recorded on a fresh engine before the calls that are explored
PriorFailures == {0, 3, 6, 12}

RECURSIVE AfterFailures(_)
\* the score after n calls of record_connection_result(false, None) on a
\* fresh engine
AfterFailures(n) ==
    IF n = 0 THEN F64_1_0 ELSE DecayOnFailure(AfterFailures(n - 1))

\* the pools that hold a server of the region
RegionalPools ==
    {pool \in ServerPools : GetRegionalServers(pool, RegionalCountries[1]) # << >>}

\* the levels explored in cycles: the one that sends raw traffic and one of
\* those that send requests through the HTTP client
CycleLevels == {"Medium", "Maximum"}

\* an engine with regional servers on which some failures were recorded,
\* beside an idle Keeper
InitEngineOnly ==
    /\ InitLearning
    /\ InitTasks
    /\ InitKeeper
    /\ config = BaseConfig
    /\ InitEngine
    /\ stealth_level \in CycleLevels
    /\ server_pool \in RegionalPools
    /\ \E n \in PriorFailures :
           /\ consecutive_failures = n
           /\ effectiveness_score = AfterFailures(n)
    /\ current_risk_level = "Low"
    /\ adaptation_count = 0
    /\ rotation_interval = 300
    /\ ema_updates = 0

\* the Stealth Engine under the calls of its interface
SpecEngine == InitEngineOnly /\ [][EngineNext]_vars

\* start, stop, rotation and changes of the level with any server pool
StartStopNext ==
    \/ Start
    \/ Stop
    \/ RotateServers
    \/ UpdateStealthLevel

\* a fresh engine of any level with any server pool, beside an idle Keeper
InitStartStop ==
    /\ InitLearning
    /\ InitTasks
    /\ InitStealth
    /\ InitKeeper
    /\ config = BaseConfig
    /\ InitEngine

\* the Stealth Engine with any server pool under start, stop, rotation and
\* changes of the level
SpecStartStop == InitStartStop /\ [][StartStopNext]_vars

\* a fresh engine at Medium level with regional servers, and the Keeper
InitLifecycle ==
    /\ InitLearning
    /\ InitTasks
    /\ InitStealth
    /\ InitKeeper
    /\ config = BaseConfig
    /\ InitEngine
    /\ stealth_level = "Medium"
    /\ server_pool \in RegionalPools

\* the Keeper and the Stealth Engine under start and stop requests
SpecLifecycle == InitLifecycle /\ [][LifecycleNext]_vars

\* the Keeper with the base configuration after the application setup and
\* toggle_optimization: the flag is Enabled and one loop is running
InitBursts ==
    /\ InitLearning
    /\ InitTasks
    /\ InitStealth
    /\ InitEngine
    /\ stealth_level = "Medium"
    /\ server_pool = << >>
    /\ optimization_mode = "Enabled"
    /\ config = BaseConfig
    /\ is_running = TRUE
    /\ hourly_budget_used_kb = 0
    /\ since_last_reset = 0
    /\ spawned = 0
    /\ loop_alive = TRUE
    /\ keeper_loops = 1
    /\ cadence = "Warmup"
    /\ since_last_change = 0
    /\ last_burst_kb = 64
    /\ since_transition = 0
    /\ last_tick = NoTick

\* the Keeper under changes of its burst sizes, with any answer of the target
SpecBursts == InitBursts /\ [][BurstNext]_vars

\* both components once the run_loop task of the application setup has
\* entered its loop: no start request is pending
InitStopping ==
    /\ InitLearning
    /\ InitTasks
    /\ InitStealth
    /\ InitEngine
    /\ stealth_level = "Medium"
    /\ server_pool \in RegionalPools
    /\ optimization_mode = "Disabled"
    /\ config = BaseConfig
    /\ is_running = TRUE
    /\ hourly_budget_used_kb = 0
    /\ since_last_reset = 0
    /\ spawned = 0
    /\ loop_alive = TRUE
    /\ keeper_loops = 1
    /\ cadence = "Warmup"
    /\ since_last_change = 0
    /\ last_burst_kb = 64
    /\ since_transition = 0
    /\ last_tick = NoTick

\* the Keeper and the Stealth Engine under start and stop requests made
\* after the application setup
SpecStopping == InitStopping /\ [][LifecycleNext]_vars


\* the intelligence core on its own
InitLearningOnly ==
    /\ InitStealth
    /\ InitKeeper
    /\ config = BaseConfig
    /\ InitEngine
    /\ stealth_level = "Medium"
    /\ server_pool = << >>
    /\ InitLearning
    /\ InitTasks

SpecLearning == InitLearningOnly /\ [][LearningNext]_vars
SpecIspLearning == InitLearningOnly /\ [][IspLearningNext]_vars

\* the Decision Loop, the store and the requests that switch the optimization
SpecDecisionLoop == InitLearningOnly /\ [][DecisionLoopNext]_vars

\* the calls on a BackgroundMonitor and the steps of its tasks
SpecMonitor == InitLearningOnly /\ [][MonitorNext]_vars

\* a stealth cycle and the status queries on the locks of one StealthEngine
SpecLocks == InitLearningOnly /\ [][LockNext]_vars

====
